---------------------------- MODULE Spec2Model ----------------------------
(***************************************************************************)
(* A model of the slide rasterizer of GoPPT (renderer.go): the RGBA pixel  *)
(* canvas and its blend / fill primitives, the render entry point          *)
(* SlideToImage, and the shape dispatcher (renderShape and the per-variant *)
(* render functions, renderRotated, renderGroup).                          *)
(*                                                                         *)
(* Conventions                                                             *)
(*  - A colour is color.RGBA: a record [R, G, B, A] of bytes 0..255.       *)
(*  - An image is *image.RGBA created by image.NewRGBA(image.Rect(0,0,w,h))*)
(*    so Bounds().Min is always (0,0) and Stride = 4*W.  The byte buffer   *)
(*    Pix is kept at pixel granularity: element i of Pix stands for the    *)
(*    four bytes Pix[4*i .. 4*i+3]; the pixel (x,y) lives at i = y*W + x,  *)
(*    which is the code's off = y*Stride + x*4 divided by 4.               *)
(*  - uint8(v) is v % 256; uint32 products are written so that no          *)
(*    intermediate exceeds 2^31.                                           *)
(*  - float64 expressions of the code whose operands are integers are      *)
(*    evaluated exactly (rationals) and truncated toward zero like int().  *)
(***************************************************************************)
EXTENDS Integers, Sequences, FiniteSets, TLC

VARIABLES
    img,    \* SpecCanvas: the canvas the primitives act on
    img0,   \* SpecCanvas: its initial contents
    prev,   \* SpecCanvas: its contents before the last call
    ops,    \* SpecCanvas: the calls made so far
    pres,   \* the Presentation: layout and slides
    opts,   \* the caller's *RenderOptions object as the last call left it
    call,   \* the arguments of the last SlideToImage call
    ret     \* what the last SlideToImage call returned, and what it drew

canvasVars == <<img, img0, prev, ops>>
renderVars == <<pres, opts, call, ret>>
vars == <<img, img0, prev, ops, pres, opts, call, ret>>

-----------------------------------------------------------------------------
(* color.RGBA and image.Rectangle *)

RGBA(r, g, b, a) == [R |-> r, G |-> g, B |-> b, A |-> a]

uint8(v) == v % 256

Min2(a, b) == IF a < b THEN a ELSE b
Max2(a, b) == IF a > b THEN a ELSE b

\* int(f) for a float64 f = num/den (den > 0): truncation toward zero.
TruncDiv(num, den) == IF num >= 0 THEN num \div den ELSE -((-num) \div den)

\* image.Rect canonicalises: min and max are swapped where needed.
Rect(x0, y0, x1, y1) ==
    [MinX |-> Min2(x0, x1), MinY |-> Min2(y0, y1),
     MaxX |-> Max2(x0, x1), MaxY |-> Max2(y0, y1)]

ZR == [MinX |-> 0, MinY |-> 0, MaxX |-> 0, MaxY |-> 0]

RectEmpty(r) == r.MinX >= r.MaxX \/ r.MinY >= r.MaxY

RectDx(r) == r.MaxX - r.MinX
RectDy(r) == r.MaxY - r.MinY

\* image.Rectangle.Intersect: the zero rectangle when the overlap is empty.
Intersect(r, s) ==
    LET t == [MinX |-> Max2(r.MinX, s.MinX), MinY |-> Max2(r.MinY, s.MinY),
              MaxX |-> Min2(r.MaxX, s.MaxX), MaxY |-> Min2(r.MaxY, s.MaxY)]
    IN  IF RectEmpty(t) THEN ZR ELSE t

InRect(r, x, y) == r.MinX <= x /\ x < r.MaxX /\ r.MinY <= y /\ y < r.MaxY

-----------------------------------------------------------------------------
(* *image.RGBA *)

\* image.NewRGBA(image.Rect(0, 0, w, h)) keeping the pixels whose index is in
\* window; every pixel starts as transparent black.
NewRGBAOn(w, h, window) ==
    [W |-> w, H |-> h,
     Pix |-> [i \in {j \in window : 0 <= j /\ j < w * h} |-> RGBA(0, 0, 0, 0)]]

NewRGBA(w, h) == NewRGBAOn(w, h, 0 .. (w * h - 1))

Bounds(im) == [MinX |-> 0, MinY |-> 0, MaxX |-> im.W, MaxY |-> im.H]

PixX(im, i) == i % im.W
PixY(im, i) == i \div im.W

\* Pix[off..off+3] = v.  Only the elements of DOMAIN Pix are kept.
SetPix(im, off, v) ==
    IF off \in DOMAIN im.Pix THEN [im EXCEPT !.Pix[off] = v] ELSE im

-----------------------------------------------------------------------------
(* Pixel operations *)

\* One colour channel of the translucent branch of blendPixel/fillRectBlend.
BlendChan(src, dst, a) == uint8((src * a + dst * (255 - a)) \div 255)

\* (mutant) the source alpha added without the (255 - dst_a) weight.
BlendAlphaUnweighted(dstA, a) == uint8(dstA + a)

\* The alpha byte of the translucent branch.
BlendAlpha(dstA, a) == uint8(dstA + ((255 - dstA) * a) \div 255)

BlendOver(c, d) ==
    RGBA(BlendChan(c.R, d.R, c.A), BlendChan(c.G, d.G, c.A),
         BlendChan(c.B, d.B, c.A), BlendAlpha(d.A, c.A))

\* What blendPixel stores at an in-bounds pixel holding d.
BlendPixelValue(c, d) ==
    IF c.A = 0 THEN d
    ELSE IF c.A = 255 THEN RGBA(c.R, c.G, c.B, 255)
    ELSE BlendOver(c, d)

\* (mutant) the bounds check lets x = Max.X through.
blendPixelLooseBound(im, x, y, c) ==
    IF x < 0 \/ x > im.W \/ y < 0 \/ y >= im.H THEN im
    ELSE IF c.A = 0 THEN im
    ELSE LET off == y * im.W + x
         IN  IF off \in DOMAIN im.Pix
             THEN SetPix(im, off, BlendPixelValue(c, im.Pix[off]))
             ELSE im

blendPixel(im, x, y, c) ==
    IF x < 0 \/ x >= im.W \/ y < 0 \/ y >= im.H THEN im
    ELSE IF c.A = 0 THEN im
    ELSE LET off == y * im.W + x
         IN  IF off \in DOMAIN im.Pix
             THEN SetPix(im, off, BlendPixelValue(c, im.Pix[off]))
             ELSE im

\* coverage is the float64 covNum/covDen (covDen > 0).
blendPixelF(im, x, y, c, covNum, covDen) ==
    IF covNum <= 0 THEN im
    ELSE IF covNum >= covDen THEN blendPixel(im, x, y, c)
    ELSE blendPixel(im, x, y,
                    RGBA(c.R, c.G, c.B, uint8(TruncDiv(c.A * covNum, covDen))))

\* draw.Draw(dst, r, &image.Uniform{c}, image.Point{}, draw.Over) on an
\* *image.RGBA: r is clipped to dst.Bounds(); c.RGBA() yields the 16-bit
\* channels c.X * 0x101; alpha 0xffff takes drawFillSrc (a plain store),
\* every other alpha takes drawFillOver,
\*     d = uint8((d * a / m + s) >> 8),  a = (m - sa) * 0x101,  m = 0xffff,
\* where d * a / m = d * (255 - A) * 257 * 257 / (255 * 257).
DrawOverChan(d, s, srcA) == uint8((((d * (255 - srcA) * 257) \div 255) + s * 257) \div 256)

DrawOverPixel(c, d) ==
    IF c.A = 255 THEN RGBA(c.R, c.G, c.B, c.A)
    ELSE RGBA(DrawOverChan(d.R, c.R, c.A), DrawOverChan(d.G, c.G, c.A),
              DrawOverChan(d.B, c.B, c.A), DrawOverChan(d.A, c.A, c.A))

\* (mutant) the rectangle's Max edge taken as inclusive.
fillRectFastInclusive(im, rect, c) ==
    LET r == Intersect(rect, Bounds(im))
    IN  IF RectEmpty(r) THEN im
        ELSE [im EXCEPT !.Pix =
                 [i \in DOMAIN im.Pix |->
                     IF InRect([r EXCEPT !.MaxX = @ + 1, !.MaxY = @ + 1],
                               PixX(im, i), PixY(im, i))
                     THEN DrawOverPixel(c, im.Pix[i])
                     ELSE im.Pix[i]]]

fillRectFast(im, rect, c) ==
    LET r == Intersect(rect, Bounds(im))
    IN  IF RectEmpty(r) THEN im
        ELSE [im EXCEPT !.Pix =
                 [i \in DOMAIN im.Pix |->
                     IF InRect(r, PixX(im, i), PixY(im, i))
                     THEN DrawOverPixel(c, im.Pix[i])
                     ELSE im.Pix[i]]]

\* (mutant) the clipped rectangle's Max edge taken as inclusive.
fillRectBlendInclusive(im, rect0, c) ==
    LET rect == Intersect(rect0, Bounds(im))
        wide == [rect EXCEPT !.MaxX = @ + 1, !.MaxY = @ + 1]
    IN  IF RectEmpty(rect) \/ c.A = 0 THEN im
        ELSE [im EXCEPT !.Pix =
                 [i \in DOMAIN im.Pix |->
                     IF InRect(wide, PixX(im, i), PixY(im, i))
                     THEN BlendPixelValue(c, im.Pix[i])
                     ELSE im.Pix[i]]]

\* (mutant) every alpha above 0 handed to draw.Draw.
fillRectBlendViaDraw(im, rect0, c) ==
    IF c.A = 0 THEN im ELSE fillRectFast(im, rect0, c)

fillRectBlend(im, rect0, c) ==
    LET rect == Intersect(rect0, Bounds(im))
    IN  IF RectEmpty(rect) THEN im
        ELSE IF c.A = 0 THEN im
        ELSE IF c.A = 255 THEN fillRectFast(im, rect, c)
        ELSE [im EXCEPT !.Pix =
                 [i \in DOMAIN im.Pix |->
                     IF InRect(rect, PixX(im, i), PixY(im, i))
                     THEN BlendOver(c, im.Pix[i])
                     ELSE im.Pix[i]]]

-----------------------------------------------------------------------------
(* Slide model: the fields of Presentation, Slide, Shape, Fill, Border and *)
(* Shadow that the renderer reads.  An absent (nil) pointer is a record    *)
(* whose tag field says "nil".                                             *)

\* Color{ARGB: "AARRGGBB"} as the four bytes <<AA, RR, GG, BB>>.
ARGB(a, r, g, b) == <<a, r, g, b>>

GetAlpha(c) == c[1]
GetRed(c) == c[2]
GetGreen(c) == c[3]
GetBlue(c) == c[4]

argbToRGBA(c) == RGBA(GetRed(c), GetGreen(c), GetBlue(c), GetAlpha(c))

NilFill == [Type |-> "nil", Color |-> ARGB(0, 0, 0, 0)]
SolidFill(c) == [Type |-> "solid", Color |-> c]
LinearFill(c, e, rot) == [Type |-> "linear", Color |-> c, EndColor |-> e, Rotation |-> rot]

NilBorder == [Style |-> "nil", Width |-> 0, Color |-> ARGB(0, 0, 0, 0)]
NilShadow ==
    [Visible |-> FALSE, Direction |-> 0, Distance |-> 0, BlurRadius |-> 0,
     Color |-> ARGB(0, 0, 0, 0), Alpha |-> 0]

\* The envelope shared by every shape variant and the variant's own fields:
\* shapes (Group), data/picture (Drawing), lineColor/lineWidth (Line),
\* numRows/numCols/cellFill (Table).
NewShape(kind, ox, oy, w, h) ==
    [kind |-> kind, offsetX |-> ox, offsetY |-> oy, width |-> w, height |-> h,
     rotation |-> 0, flipH |-> FALSE, flipV |-> FALSE,
     fill |-> NilFill, border |-> NilBorder, shadow |-> NilShadow,
     shapes |-> <<>>, data |-> "none", picture |-> ARGB(0, 0, 0, 0),
     lineColor |-> ARGB(255, 0, 0, 0), lineWidth |-> 1,
     numRows |-> 0, numCols |-> 0, cellFill |-> NilFill]

Transformed(s) == s.rotation # 0 \/ s.flipH \/ s.flipV

-----------------------------------------------------------------------------
(* The renderer: img, scaleX, scaleY (fontCache and dpi only reach text,   *)
(* which the modelled shapes do not carry).  scaleX = imgW/slideW and      *)
(* scaleY = imgH/slideH are kept as fractions <<num, den>>.  Two fields    *)
(* record what the renderer did: base is the canvas position of the origin *)
(* of img (<<0,0>> for the canvas itself), log the drawing steps in the    *)
(* order they were executed.                                               *)

RECURSIVE GCD(_, _)
GCD(a, b) == IF b = 0 THEN a ELSE GCD(b, a % b)

Fraction(num, den) ==
    LET g == GCD(num, den) IN IF g = 0 THEN <<0, 1>> ELSE <<num \div g, den \div g>>

\* int(float64(a) * float64(b) / float64(c)) for a, b >= 0 and c > 0.
MulDivTrunc(a, b, c) == LET f == Fraction(b, c) IN TruncDiv(a * f[1], f[2])

emuToPixelX(R, emu) == TruncDiv(emu * R.scaleX[1], R.scaleX[2])
emuToPixelY(R, emu) == TruncDiv(emu * R.scaleY[1], R.scaleY[2])

Draw(R, im) == [R EXCEPT !.img = im]

Note(R, s, path, stage, via, rect) ==
    [R EXCEPT !.log = Append(@, [path |-> path, kind |-> s.kind, stage |-> stage,
                                 via |-> via, transformed |-> Transformed(s),
                                 base |-> R.base, rect |-> rect])]

-----------------------------------------------------------------------------
(* Rectangles and lines *)

RectAdd(r, dx, dy) ==
    [MinX |-> r.MinX + dx, MinY |-> r.MinY + dy, MaxX |-> r.MaxX + dx, MaxY |-> r.MaxY + dy]

\* image.Rectangle.Inset
Inset(r, n) ==
    LET mx == TruncDiv(r.MinX + r.MaxX, 2)
        my == TruncDiv(r.MinY + r.MaxY, 2)
        x0 == IF RectDx(r) < 2 * n THEN mx ELSE r.MinX + n
        x1 == IF RectDx(r) < 2 * n THEN mx ELSE r.MaxX - n
        y0 == IF RectDy(r) < 2 * n THEN my ELSE r.MinY + n
        y1 == IF RectDy(r) < 2 * n THEN my ELSE r.MaxY - n
    IN  [MinX |-> x0, MinY |-> y0, MaxX |-> x1, MaxY |-> y1]

\* The inner loop of drawRect: for y := from; y < rect.Max.Y; y++
RECURSIVE drawRectColumns(_, _, _, _, _)
drawRectColumns(im, rect, c, i, y) ==
    IF y >= rect.MaxY THEN im
    ELSE drawRectColumns(
             blendPixel(blendPixel(im, rect.MinX + i, y, c), rect.MaxX - 1 - i, y, c),
             rect, c, i, y + 1)

\* The outer loop of drawRect: for i := from; i < width; i++
RECURSIVE drawRectFrom(_, _, _, _, _)
drawRectFrom(im, rect, c, width, i) ==
    IF i >= width THEN im
    ELSE LET top == fillRectBlend(im,
                        Rect(rect.MinX, rect.MinY + i, rect.MaxX, rect.MinY + i + 1), c)
             bot == fillRectBlend(top,
                        Rect(rect.MinX, rect.MaxY - 1 - i, rect.MaxX, rect.MaxY - i), c)
         IN  drawRectFrom(drawRectColumns(bot, rect, c, i, rect.MinY), rect, c, width, i + 1)

\* (mutant) the whole rectangle filled instead of its outline.
drawRectFilled(im, rect, c, width) == fillRectBlend(im, rect, c)

drawRect(im, rect, c, width) == drawRectFrom(im, rect, c, width, 0)

\* for x := x; x < x2; x++ { if (x-x1)%period < dashLen { blendPixel(x, y, c) } }
\* (x - x1 is never negative in the loop, so Go's % is the mathematical one)
RECURSIVE drawDashedHLineFrom(_, _, _, _, _, _, _, _)
drawDashedHLineFrom(im, x1, x2, y, c, dashLen, gapLen, x) ==
    IF x >= x2 THEN im
    ELSE drawDashedHLineFrom(
             IF (x - x1) % (dashLen + gapLen) < dashLen THEN blendPixel(im, x, y, c) ELSE im,
             x1, x2, y, c, dashLen, gapLen, x + 1)

drawDashedHLine(im, x1, x2, y, c, dashLen, gapLen) ==
    drawDashedHLineFrom(im, x1, x2, y, c, dashLen, gapLen, x1)

RECURSIVE drawDashedVLineFrom(_, _, _, _, _, _, _, _)
drawDashedVLineFrom(im, x, y1, y2, c, dashLen, gapLen, y) ==
    IF y >= y2 THEN im
    ELSE drawDashedVLineFrom(
             IF (y - y1) % (dashLen + gapLen) < dashLen THEN blendPixel(im, x, y, c) ELSE im,
             x, y1, y2, c, dashLen, gapLen, y + 1)

drawDashedVLine(im, x, y1, y2, c, dashLen, gapLen) ==
    drawDashedVLineFrom(im, x, y1, y2, c, dashLen, gapLen, y1)

RECURSIVE drawDashedBorderFrom(_, _, _, _, _, _, _)
drawDashedBorderFrom(im, rect, c, width, dashLen, gapLen, i) ==
    IF i >= width THEN im
    ELSE LET a == drawDashedHLine(im, rect.MinX, rect.MaxX, rect.MinY + i, c, dashLen, gapLen)
             b == drawDashedHLine(a, rect.MinX, rect.MaxX, rect.MaxY - 1 - i, c, dashLen, gapLen)
             d == drawDashedVLine(b, rect.MinX + i, rect.MinY, rect.MaxY, c, dashLen, gapLen)
             e == drawDashedVLine(d, rect.MaxX - 1 - i, rect.MinY, rect.MaxY, c, dashLen, gapLen)
         IN  drawDashedBorderFrom(e, rect, c, width, dashLen, gapLen, i + 1)

drawRectBorder(im, rect, c, width, style) ==
    IF style = "solid" \/ style = "none" THEN drawRect(im, rect, c, width)
    ELSE IF style = "dot" THEN drawDashedBorderFrom(im, rect, c, width, 2, 2, 0)
    ELSE drawDashedBorderFrom(im, rect, c, width, 6, 4, 0)

\* abs(x)
abs(x) == IF x < 0 THEN -x ELSE x

\* The loop of drawLine entered at (x, y) with err: the points given to
\* blendPixel, in order.  ln holds dx, dy, sx, sy and the end point; the loop
\* is cut after fuel iterations, and done says that it has reached its break.
RECURSIVE drawLineLoop(_, _, _, _, _)
drawLineLoop(ln, x, y, err, fuel) ==
    IF fuel = 0 THEN [pts |-> <<>>, done |-> FALSE]
    ELSE IF x = ln.x2 /\ y = ln.y2 THEN [pts |-> <<<<x, y>>>>, done |-> TRUE]
    ELSE LET e2 == 2 * err
             stepX == e2 > -ln.dy
             stepY == e2 < ln.dx
             rest == drawLineLoop(ln, IF stepX THEN x + ln.sx ELSE x,
                                  IF stepY THEN y + ln.sy ELSE y,
                                  err - (IF stepX THEN ln.dy ELSE 0)
                                      + (IF stepY THEN ln.dx ELSE 0),
                                  fuel - 1)
         IN  [pts |-> <<<<x, y>>>> \o rest.pts, done |-> rest.done]

\* dx, dy, sx, sy of drawLine.
lineSetup(x1, y1, x2, y2) ==
    [dx |-> abs(x2 - x1), dy |-> abs(y2 - y1), sx |-> IF x1 > x2 THEN -1 ELSE 1,
     sy |-> IF y1 > y2 THEN -1 ELSE 1, x2 |-> x2, y2 |-> y2]

\* (mutant) the loop breaks at the end point before blending it.
drawLinePointsOpenEnd(x1, y1, x2, y2) ==
    LET r == drawLineLoop(lineSetup(x1, y1, x2, y2), x1, y1,
                          abs(x2 - x1) - abs(y2 - y1), abs(x2 - x1) + abs(y2 - y1) + 2)
    IN  [pts |-> SubSeq(r.pts, 1, Len(r.pts) - 1), done |-> r.done]

\* The points drawLine blends; a line of dx + dy + 1 points at most would
\* have ended within the iterations allowed here.
drawLinePoints(x1, y1, x2, y2) ==
    drawLineLoop(lineSetup(x1, y1, x2, y2), x1, y1, abs(x2 - x1) - abs(y2 - y1),
                 abs(x2 - x1) + abs(y2 - y1) + 2)

\* What n calls of blendPixel with c leave at an in-bounds pixel holding d.
RECURSIVE blendTimes(_, _, _)
blendTimes(c, d, n) == IF n = 0 THEN d ELSE blendTimes(c, BlendPixelValue(c, d), n - 1)

\* The calls r.blendPixel(p[1], p[2], c) for the points p of pts: blendPixel
\* touches only its own pixel, so each pixel is blended as often as pts
\* holds it.
blendPixelSeq(im, pts, c) ==
    [im EXCEPT !.Pix =
        [i \in DOMAIN im.Pix |->
            blendTimes(c, im.Pix[i],
                       Cardinality({k \in 1 .. Len(pts) :
                                       pts[k] = <<PixX(im, i), PixY(im, i)>>}))]]

\* drawLine(x1, y1, x2, y2, c)
drawLine(im, x1, y1, x2, y2, c) ==
    blendPixelSeq(im, drawLinePoints(x1, y1, x2, y2).pts, c)

\* A sequence of blendPixelF calls <<x, y, covNum, covDen>> made in order.
RECURSIVE blendPixelFSeq(_, _, _, _)
blendPixelFSeq(im, calls, c, k) ==
    IF k > Len(calls) THEN im
    ELSE blendPixelFSeq(
             blendPixelF(im, calls[k][1], calls[k][2], c, calls[k][3], calls[k][4]),
             calls, c, k + 1)

\* drawLineWu for integer end points.  After the steep / left-to-right swaps
\* the line runs from (x0,y0) to (x1,y1) with dx >= 0; xend = x0, yend = y0,
\* xgap = 1/2 at both ends; intery after k steps is y0 + k*dy/dx, so
\* floor(intery) = y0 + (k*dy) \div dx and fpart(intery) = ((k*dy) % dx)/dx.
\* A pixel (a, b) of the swapped frame is the image pixel (b, a) when steep.
drawLineWu(im, px0, py0, px1, py1, c) ==
    LET absv(v) == IF v < 0 THEN -v ELSE v
        steep == absv(py1 - py0) > absv(px1 - px0)
        ax0 == IF steep THEN py0 ELSE px0
        ay0 == IF steep THEN px0 ELSE py0
        ax1 == IF steep THEN py1 ELSE px1
        ay1 == IF steep THEN px1 ELSE py1
        x0 == IF ax0 > ax1 THEN ax1 ELSE ax0
        y0 == IF ax0 > ax1 THEN ay1 ELSE ay0
        x1 == IF ax0 > ax1 THEN ax0 ELSE ax1
        y1 == IF ax0 > ax1 THEN ay0 ELSE ay1
        dx == x1 - x0
        dy == y1 - y0
        P(a, b, n, d) == IF steep THEN <<b, a, n, d>> ELSE <<a, b, n, d>>
        ends == << P(x0, y0, 1, 2), P(x0, y0 + 1, 0, 2),
                   P(x1, y1, 1, 2), P(x1, y1 + 1, 0, 2) >>
        inner == [j \in 1 .. 2 * Max2(dx - 1, 0) |->
                    LET k == (j + 1) \div 2
                        iy == y0 + (k * dy) \div dx
                        f == (k * dy) % dx
                    IN  IF j % 2 = 1 THEN P(x0 + k, iy, dx - f, dx)
                        ELSE P(x0 + k, iy + 1, f, dx)]
    IN  blendPixelFSeq(im, ends \o inner, c, 1)

\* drawLineAA with width <= 1 (the widths the modelled lines have).
drawLineAA(im, x1, y1, x2, y2, c, width) == drawLineWu(im, x1, y1, x2, y2, c)

-----------------------------------------------------------------------------
(* Fill and shadow *)

\* renderFill for the fill types of the modelled shapes (none, solid).
renderFill(im, fill, rect) ==
    IF fill.Type = "nil" \/ fill.Type = "none" THEN im
    ELSE fillRectBlend(im, rect, argbToRGBA(fill.Color))

\* cos and sin of the directions and rotations the model draws from
\* (multiples of 90 degrees), as they act under int(): math.Cos(90 deg) is
\* 6.1e-17, and int(v * 6.1e-17) = 0 for every v the model produces.
Cos4(deg) == CASE deg = 0 -> 1 [] deg = 90 -> 0 [] deg = 180 -> -1 [] deg = 270 -> 0
Sin4(deg) == CASE deg = 0 -> 0 [] deg = 90 -> 1 [] deg = 180 -> 0 [] deg = 270 -> -1

RECURSIVE IsPow2(_)
IsPow2(n) == n = 1 \/ (n > 1 /\ n % 2 = 0 /\ IsPow2(n \div 2))

\* uint8(float64(s)*it + float64(e)*t) for t = tn/td in [0, 1] and it = 1 - t.
\* When the true value is an integer k > 0 and the float64 operations were
\* inexact, the sum may be rounded to just below k and give k - 1 (low).
lerpChan(s, e, tn, td, low) ==
    LET num == s * (td - tn) + e * tn
    IN  IF low /\ num % td = 0 /\ num > 0 THEN uint8((num \div td) - 1)
        ELSE uint8(num \div td)

\* (mutant) t runs from 0 at the first column to 1 at the last one.
fillGradientLinearEndToEnd(im, rect, fill, lerpLow) ==
    LET startC == argbToRGBA(fill.Color)
        endC == argbToRGBA(fill.EndColor)
        td == IF RectDx(rect) > 1 THEN RectDx(rect) - 1 ELSE 1
        tn(i) == IF PixX(im, i) - rect.MinX > td THEN td ELSE PixX(im, i) - rect.MinX
    IN  [im EXCEPT !.Pix =
            [i \in DOMAIN im.Pix |->
                IF InRect(rect, PixX(im, i), PixY(im, i))
                THEN RGBA(lerpChan(startC.R, endC.R, tn(i), td, FALSE),
                          lerpChan(startC.G, endC.G, tn(i), td, FALSE),
                          lerpChan(startC.B, endC.B, tn(i), td, FALSE),
                          lerpChan(startC.A, endC.A, tn(i), td, FALSE))
                ELSE im.Pix[i]]]

\* fillGradientLinear for a rotation that is a multiple of 90 degrees.  With
\* mp2 = 2*maxProj, t = ((2*dx - w)*cos + (2*dy - h)*sin + mp2) / (2*mp2)
\* for the pixel at (dx, dy) from rect.Min, clamped to [0, 1].  The float64
\* operations are exact when the rotation is 0 and t = 0 or 2*mp2 is a power
\* of two; lerpLow says how the inexact sums round.  The pixel is stored,
\* not blended.
fillGradientLinear(im, rect, fill, lerpLow) ==
    LET startC == argbToRGBA(fill.Color)
        endC == argbToRGBA(fill.EndColor)
        w == RectDx(rect)
        h == RectDy(rect)
        absv(v) == IF v < 0 THEN -v ELSE v
        proj == absv(w * Cos4(fill.Rotation)) + absv(h * Sin4(fill.Rotation))
        mp2 == IF proj < 2 THEN 2 ELSE proj
        td == 2 * mp2
        raw(i) == (2 * (PixX(im, i) - rect.MinX) - w) * Cos4(fill.Rotation)
                  + (2 * (PixY(im, i) - rect.MinY) - h) * Sin4(fill.Rotation) + mp2
        tn(i) == IF raw(i) < 0 THEN 0 ELSE IF raw(i) > td THEN td ELSE raw(i)
        low(i) == lerpLow /\ ~(fill.Rotation = 0 /\ (tn(i) = 0 \/ IsPow2(td)))
    IN  IF w <= 0 \/ h <= 0 THEN im
        ELSE [im EXCEPT !.Pix =
                 [i \in DOMAIN im.Pix |->
                     IF InRect(rect, PixX(im, i), PixY(im, i))
                     THEN RGBA(lerpChan(startC.R, endC.R, tn(i), td, low(i)),
                               lerpChan(startC.G, endC.G, tn(i), td, low(i)),
                               lerpChan(startC.B, endC.B, tn(i), td, low(i)),
                               lerpChan(startC.A, endC.A, tn(i), td, low(i)))
                     ELSE im.Pix[i]]]

\* uint8(float64(s)*it + float64(e)*t) for t = sqrt(q/m) in [0, 1]: the
\* largest k with s + (e - s)*t >= k, found by comparing squares.  float64 is
\* exact when t = 0; otherwise a true value that is an integer k > 0 may be
\* rounded to just below k and give k - 1 (low).
lerpRoot(s, e, q, m, low) ==
    LET atLeast(k) == IF e >= s THEN k <= s \/ (k - s) * (k - s) * m <= (e - s) * (e - s) * q
                      ELSE k <= s /\ (s - e) * (s - e) * q <= (s - k) * (s - k) * m
        fl == CHOOSE k \in 0 .. 255 : atLeast(k) /\ ~atLeast(k + 1)
    IN  IF low /\ q > 0 /\ fl > 0 /\ (fl - s) * (fl - s) * m = (e - s) * (e - s) * q
        THEN fl - 1
        ELSE fl

\* fillGradientPath: with a = 2*dxf and b = 2*dyf, t = sqrt(a*a + b*b) divided
\* by 2*maxDist = sqrt(w*w + h*h) (2 when maxDist < 1), clamped to 1.  The
\* pixel is stored, not blended.
fillGradientPath(im, rect, fill, lerpLow) ==
    LET startC == argbToRGBA(fill.Color)
        endC == argbToRGBA(fill.EndColor)
        w == RectDx(rect)
        h == RectDy(rect)
        m == IF w * w + h * h < 4 THEN 4 ELSE w * w + h * h
        a(i) == 2 * (PixX(im, i) - rect.MinX) - w
        b(i) == 2 * (PixY(im, i) - rect.MinY) - h
        q(i) == IF a(i) * a(i) + b(i) * b(i) > m THEN m ELSE a(i) * a(i) + b(i) * b(i)
    IN  IF w <= 0 \/ h <= 0 THEN im
        ELSE [im EXCEPT !.Pix =
                 [i \in DOMAIN im.Pix |->
                     IF InRect(rect, PixX(im, i), PixY(im, i))
                     THEN RGBA(lerpRoot(startC.R, endC.R, q(i), m, lerpLow),
                               lerpRoot(startC.G, endC.G, q(i), m, lerpLow),
                               lerpRoot(startC.B, endC.B, q(i), m, lerpLow),
                               lerpRoot(startC.A, endC.A, q(i), m, lerpLow))
                     ELSE im.Pix[i]]]

\* The elements of r.img.Pix that the loops of fillGradientLinear and
\* fillGradientPath index, as pixel offsets: the element i of Pix stands
\* for the bytes 4*i .. 4*i + 3 and Stride is 4*W.  off starts at the first
\* clamped column of the row and advances by one pixel per column.
gradientOffsets(im, rect) ==
    IF RectDx(rect) <= 0 \/ RectDy(rect) <= 0 THEN {}
    ELSE UNION {{py * im.W + Max2(rect.MinX, 0) + k :
                    k \in 0 .. (Min2(rect.MaxX, im.W) - Max2(rect.MinX, 0) - 1)} :
                   py \in {y \in rect.MinY .. (rect.MaxY - 1) : 0 <= y /\ y < im.H}}

-----------------------------------------------------------------------------
(* Ellipse fill.  With n2 = 2*dyNorm and m2 = 2*dxNorm (integers),          *)
(* d = m2^2/w^2 + n2^2/h^2 and (2*hExtent)^2 = w^2 * (h^2 - n2^2) / h^2.     *)

\* int(centerX - hExtent): the largest k with 2*hExtent <= 2*centerX - 2*k,
\* moved toward zero when the value is negative and not an integer.
ellipseMinPx(cx, w, h, n2) ==
    LET root2 == w * w * (h * h - n2 * n2)
        below(k) == 2 * cx + w - 2 * k >= 0
                    /\ root2 <= (2 * cx + w - 2 * k) * (2 * cx + w - 2 * k) * h * h
        fl == CHOOSE k \in (cx - 1) .. (cx + w) : below(k) /\ ~below(k + 1)
    IN  IF fl < 0 /\ root2 # (2 * cx + w - 2 * fl) * (2 * cx + w - 2 * fl) * h * h
        THEN fl + 1
        ELSE fl

\* int(centerX + hExtent + 1)
ellipseMaxPx(cx, w, h, n2) ==
    LET root2 == w * w * (h * h - n2 * n2)
        upTo(k) == 2 * k - 2 * cx - w <= 0
                   \/ (2 * k - 2 * cx - w) * (2 * k - 2 * cx - w) * h * h <= root2
        fl == CHOOSE k \in (cx - 1) .. (cx + w + 1) : upTo(k) /\ ~upTo(k + 1)
        whole == 2 * fl - 2 * cx - w >= 0
                 /\ (2 * fl - 2 * cx - w) * (2 * fl - 2 * cx - w) * h * h = root2
    IN  IF fl + 1 < 0 /\ ~whole THEN fl + 2 ELSE fl + 1

\* The columns [minPx, maxPx) that the row py of fillEllipseAA visits.
ellipseColumns(im, cx, cy, w, h, py) ==
    LET n2 == 2 * (py - cy) + 1 - h
        minPx == Max2(Max2(ellipseMinPx(cx, w, h, n2), cx), 0)
        maxPx == Min2(Min2(ellipseMaxPx(cx, w, h, n2), cx + w), im.W)
    IN  IF n2 * n2 > h * h THEN {} ELSE minPx .. (maxPx - 1)

\* d <= 1.0, and edge = 1 - d against aaThreshold = 0.05 = 1/20.
ellipseInside(cx, cy, w, h, px, py) ==
    LET m2 == 2 * (px - cx) + 1 - w
        n2 == 2 * (py - cy) + 1 - h
    IN  m2 * m2 * h * h + n2 * n2 * w * w <= w * w * h * h

ellipseEdge(cx, cy, w, h, px, py) ==
    LET m2 == 2 * (px - cx) + 1 - w
        n2 == 2 * (py - cy) + 1 - h
    IN  w * w * h * h - (m2 * m2 * h * h + n2 * n2 * w * w)

\* (mutant) the columns are not clamped to the bounds of the image.
fillEllipseAAOffsetsUnclamped(im, cx, cy, w, h) ==
    UNION {{py * im.W + px : px \in {x \in cx .. (cx + w - 1) :
                                        ellipseInside(cx, cy, w, h, x, py)}} :
              py \in {y \in cy .. (cy + h - 1) : 0 <= y /\ y < im.H}}

\* The elements of r.img.Pix that fillEllipseAA indexes itself (rowOff), as
\* pixel offsets: the pixels of the visited columns with d <= 1 whose edge
\* is not below the threshold (the others go through blendPixelF).
fillEllipseAAOffsets(im, cx, cy, w, h) ==
    IF w <= 0 \/ h <= 0 THEN {}
    ELSE UNION {{py * im.W + Max2(Max2(ellipseMinPx(cx, w, h, 2 * (py - cy) + 1 - h), cx), 0)
                    + (px - Max2(Max2(ellipseMinPx(cx, w, h, 2 * (py - cy) + 1 - h), cx), 0)) :
                    px \in {x \in ellipseColumns(im, cx, cy, w, h, py) :
                               /\ ellipseInside(cx, cy, w, h, x, py)
                               /\ 20 * ellipseEdge(cx, cy, w, h, x, py) >= w * w * h * h}} :
                   py \in {y \in cy .. (cy + h - 1) : 0 <= y /\ y < im.H}}

\* fillEllipseAA(cx, cy, w, h, c).  Every pixel is visited at most once, so
\* the loop is given pixel by pixel; the coverage of an edge pixel is
\* edge/aaThreshold = 20*edge.
fillEllipseAA(im, cx, cy, w, h, c) ==
    IF w <= 0 \/ h <= 0 THEN im
    ELSE [im EXCEPT !.Pix =
             [i \in DOMAIN im.Pix |->
                 LET px == PixX(im, i)
                     py == PixY(im, i)
                     edge == ellipseEdge(cx, cy, w, h, px, py)
                 IN  IF /\ cy <= py /\ py < cy + h
                        /\ px \in ellipseColumns(im, cx, cy, w, h, py)
                        /\ ellipseInside(cx, cy, w, h, px, py)
                     THEN IF 20 * edge < w * w * h * h
                          THEN blendPixelF(im, px, py, c, 20 * edge, w * w * h * h).Pix[i]
                          ELSE IF c.A = 255 THEN RGBA(c.R, c.G, c.B, 255)
                          ELSE BlendOver(c, im.Pix[i])
                     ELSE im.Pix[i]]]

-----------------------------------------------------------------------------
(* Polygon fill.  A point is <<x, y>> with integer coordinates; an          *)
(* intersection abscissa is the fraction <<num, den>> with den > 0.          *)

FloorFrac(q) == q[1] \div q[2]
CeilFrac(q) == -((-q[1]) \div q[2])
LessFrac(p, q) == p[1] * q[2] < q[1] * p[2]

\* sort.Float64s, by insertion.
RECURSIVE InsertFrac(_, _)
InsertFrac(sorted, q) ==
    IF sorted = <<>> THEN <<q>>
    ELSE IF LessFrac(q, Head(sorted)) THEN <<q>> \o sorted
    ELSE <<Head(sorted)>> \o InsertFrac(Tail(sorted), q)

RECURSIVE SortFracs(_)
SortFracs(qs) == IF qs = <<>> THEN <<>> ELSE InsertFrac(SortFracs(Tail(qs)), Head(qs))

\* The edge loop of one scanline: the abscissas where the line fy = y + 1/2
\* crosses the edges i .. n-1, in edge order.
RECURSIVE polygonIntersections(_, _, _)
polygonIntersections(pts, y, i) ==
    IF i > Len(pts) THEN <<>>
    ELSE LET a == pts[i]
             b == pts[(i % Len(pts)) + 1]
             py1 == Min2(a[2], b[2])
             py2 == Max2(a[2], b[2])
             dy == b[2] - a[2]
             num == a[1] * 2 * dy + (2 * y + 1 - 2 * a[2]) * (b[1] - a[1])
             rest == polygonIntersections(pts, y, i + 1)
         IN  IF 2 * y + 1 < 2 * py1 \/ 2 * y + 1 >= 2 * py2 \/ dy = 0 THEN rest
             ELSE <<IF dy > 0 THEN <<num, 2 * dy>> ELSE <<-num, -2 * dy>>>> \o rest

\* The pair loop of one scanline: for i := from; i+1 < len; i += 2
RECURSIVE fillPolygonPairs(_, _, _, _, _)
fillPolygonPairs(im, xs, y, c, i) ==
    IF i + 1 > Len(xs) THEN im
    ELSE LET x1 == CeilFrac(xs[i])
             x2 == FloorFrac(xs[i + 1])
             row == Rect(x1, y, x2 + 1, y + 1)
         IN  fillPolygonPairs(
                 IF x1 > x2 THEN im
                 ELSE IF c.A = 255 THEN fillRectFast(im, row, c)
                 ELSE fillRectBlend(im, row, c),
                 xs, y, c, i + 2)

\* The scanline loop: for y := from; y <= int(maxY); y++
RECURSIVE fillPolygonRows(_, _, _, _, _)
fillPolygonRows(im, pts, c, y, maxY) ==
    IF y > maxY THEN im
    ELSE fillPolygonRows(
             fillPolygonPairs(im, SortFracs(polygonIntersections(pts, y, 1)), y, c, 1),
             pts, c, y + 1, maxY)

\* The scanline loop with the intersections paired in edge order, unsorted.
RECURSIVE fillPolygonRowsUnsorted(_, _, _, _, _)
fillPolygonRowsUnsorted(im, pts, c, y, maxY) ==
    IF y > maxY THEN im
    ELSE fillPolygonRowsUnsorted(
             fillPolygonPairs(im, polygonIntersections(pts, y, 1), y, c, 1),
             pts, c, y + 1, maxY)

RECURSIVE MinOfY(_, _)
MinOfY(pts, i) ==
    IF i = Len(pts) THEN pts[i][2] ELSE Min2(pts[i][2], MinOfY(pts, i + 1))

RECURSIVE MaxOfY(_, _)
MaxOfY(pts, i) ==
    IF i = Len(pts) THEN pts[i][2] ELSE Max2(pts[i][2], MaxOfY(pts, i + 1))

\* (mutant) fillPolygon without the sort of the intersections.
fillPolygonUnsorted(im, pts, c) ==
    IF Len(pts) < 3 THEN im
    ELSE fillPolygonRowsUnsorted(im, pts, c, MinOfY(pts, 1), MaxOfY(pts, 1))

fillPolygon(im, pts, c) ==
    IF Len(pts) < 3 THEN im
    ELSE fillPolygonRows(im, pts, c, MinOfY(pts, 1), MaxOfY(pts, 1))

\* The ring loop of renderShadow: for i := from; i >= 0; i--
\* alpha = uint8(A * (1 - t*t)), t = i/steps.
shadowRingColor(sc, steps, i) ==
    RGBA(sc.R, sc.G, sc.B, uint8(TruncDiv(sc.A * (steps * steps - i * i), steps * steps)))

RECURSIVE shadowRings(_, _, _, _, _)
shadowRings(im, shadowRect, sc, steps, i) ==
    IF i < 0 THEN im
    ELSE LET c == shadowRingColor(sc, steps, i)
             expanded == Inset(shadowRect, -i)
             inner == Inset(shadowRect, -(i - 1))
             top == fillRectBlend(im,
                        Rect(expanded.MinX, expanded.MinY, expanded.MaxX, inner.MinY), c)
             bot == fillRectBlend(top,
                        Rect(expanded.MinX, inner.MaxY, expanded.MaxX, expanded.MaxY), c)
             lft == fillRectBlend(bot,
                        Rect(expanded.MinX, inner.MinY, inner.MinX, inner.MaxY), c)
             rgt == fillRectBlend(lft,
                        Rect(inner.MaxX, inner.MinY, expanded.MaxX, inner.MaxY), c)
         IN  shadowRings(IF i > 0 THEN rgt ELSE fillRectBlend(im, expanded, c),
                         shadowRect, sc, steps, i - 1)

renderShadow(im, scaleX, shadow, rect) ==
    IF ~shadow.Visible THEN im
    ELSE LET dx == TruncDiv(shadow.Distance * scaleX[1] * Cos4(shadow.Direction), scaleX[2])
             dy == TruncDiv(shadow.Distance * scaleX[1] * Sin4(shadow.Direction), scaleX[2])
             sc0 == argbToRGBA(shadow.Color)
             sc == [sc0 EXCEPT !.A = uint8(TruncDiv(shadow.Alpha * 255, 100))]
             shadowRect == RectAdd(rect, dx, dy)
         IN  IF shadow.BlurRadius <= 0 THEN fillRectBlend(im, shadowRect, sc)
             ELSE shadowRings(im, shadowRect, sc, Min2(shadow.BlurRadius, 10),
                              Min2(shadow.BlurRadius, 10))

-----------------------------------------------------------------------------
(* Plus and rounded rectangle *)

\* How many of the rectangles of rs, each given to fillRectBlend, hold (x, y).
rectsHolding(rs, x, y) == Cardinality({k \in 1 .. Len(rs) : InRect(rs[k], x, y)})

\* fillPlus(x, y, w, h, c): the horizontal and the vertical bar, one
\* fillRectBlend each; a pixel is blended once for every bar that holds it.
fillPlus(im, x, y, w, h, c) ==
    LET armW == TruncDiv(w, 3)
        armH == TruncDiv(h, 3)
        rs == <<Rect(x, y + armH, x + w, y + h - armH),
                Rect(x + armW, y, x + w - armW, y + h)>>
    IN  [im EXCEPT !.Pix =
            [i \in DOMAIN im.Pix |->
                blendTimes(c, im.Pix[i], rectsHolding(rs, PixX(im, i), PixY(im, i)))]]

\* fillRoundedRect(x, y, w, h, radius, c): the centre rectangle and the two
\* side strips by fillRectBlend, then the pixels of the four corner squares
\* that pass the circle test by blendPixel.
fillRoundedRect(im, x, y, w, h, radius0, c) ==
    IF radius0 <= 0 THEN fillRectBlend(im, Rect(x, y, x + w, y + h), c)
    ELSE LET radius == Min2(radius0, Min2(TruncDiv(w, 2), TruncDiv(h, 2)))
             rs == <<Rect(x + radius, y, x + w - radius, y + h),
                     Rect(x, y + radius, x + radius, y + h - radius),
                     Rect(x + w - radius, y + radius, x + w, y + h - radius)>>
             corners == <<<<x + radius, y + radius>>, <<x + w - radius, y + radius>>,
                          <<x + radius, y + h - radius>>,
                          <<x + w - radius, y + h - radius>>>>
             cornerRects ==
                 <<[MinX |-> x, MinY |-> y, MaxX |-> x + radius, MaxY |-> y + radius],
                   [MinX |-> x + w - radius, MinY |-> y, MaxX |-> x + w,
                    MaxY |-> y + radius],
                   [MinX |-> x, MinY |-> y + h - radius, MaxX |-> x + radius,
                    MaxY |-> y + h],
                   [MinX |-> x + w - radius, MinY |-> y + h - radius, MaxX |-> x + w,
                    MaxY |-> y + h]>>
             inCorner(ci, px, py) ==
                 /\ InRect(cornerRects[ci], px, py)
                 /\ (px - corners[ci][1]) * (px - corners[ci][1])
                    + (py - corners[ci][2]) * (py - corners[ci][2]) <= radius * radius
         IN  [im EXCEPT !.Pix =
                 [i \in DOMAIN im.Pix |->
                     blendTimes(c, im.Pix[i],
                                rectsHolding(rs, PixX(im, i), PixY(im, i))
                                + Cardinality({ci \in 1 .. 4 :
                                                  inCorner(ci, PixX(im, i), PixY(im, i))}))]]

-----------------------------------------------------------------------------
(* Rotation and flip support *)

\* tmp := image.NewRGBA(image.Rect(0, 0, w, h)); tmpR := &renderer{img: tmp, ...}
tmpRenderer(R, x, y, w, h) ==
    [R EXCEPT !.img = NewRGBA(w, h), !.base = <<R.base[1] + x, R.base[2] + y>>]

\* The flip loops of renderRotated.
flipped(tmp, flipH, flipV) ==
    [tmp EXCEPT !.Pix =
        [i \in DOMAIN tmp.Pix |->
            LET px == PixX(tmp, i)
                py == PixY(tmp, i)
                sx == IF flipH THEN tmp.W - 1 - px ELSE px
                sy == IF flipV THEN tmp.H - 1 - py ELSE py
            IN  tmp.Pix[sy * tmp.W + sx]]]

\* draw.Draw(dst, image.Rect(x, y, x+w, y+h), src, image.Point{}, draw.Over)
\* for an *image.RGBA src: the rectangle is clipped to dst and to src.
drawImageOver(dst, rect, src) ==
    LET r == Intersect(Intersect(rect, Bounds(dst)),
                       RectAdd(Bounds(src), rect.MinX, rect.MinY))
    IN  IF RectEmpty(r) THEN dst
        ELSE [dst EXCEPT !.Pix =
                 [i \in DOMAIN dst.Pix |->
                     IF InRect(r, PixX(dst, i), PixY(dst, i))
                     THEN LET s == src.Pix[(PixY(dst, i) - rect.MinY) * src.W
                                           + (PixX(dst, i) - rect.MinX)]
                              d == dst.Pix[i]
                          IN  RGBA(DrawOverChan(d.R, s.R, s.A), DrawOverChan(d.G, s.G, s.A),
                                   DrawOverChan(d.B, s.B, s.A), DrawOverChan(d.A, s.A, s.A))
                     ELSE dst.Pix[i]]]

\* math.Cos and math.Sin at a multiple of 90 degrees return, where the true
\* value is 0, a residue: cos(90) = 6.1e-17, cos(270) = -1.8e-16,
\* sin(180) = 1.2e-16 (sin(0) is exactly 0).  Cos4 and Sin4 are the true
\* values, CosResidue and SinResidue the signs of the residues.
CosResidue(deg) == CASE deg = 90 -> 1 [] deg = 270 -> -1 [] OTHER -> 0
SinResidue(deg) == CASE deg = 180 -> 1 [] OTHER -> 0

Sgn(v) == IF v > 0 THEN 1 ELSE IF v < 0 THEN -1 ELSE 0

\* The outcomes of the float64 roundings the result depends on: whether a
\* residue added to a sample coordinate (sx, sy) or to a bound survives the
\* rounding of the sum, and whether an interpolated channel whose true value
\* is an integer is rounded to just below it.
ExactFloat == [sx |-> FALSE, sy |-> FALSE, bounds |-> FALSE, lerp |-> FALSE]

\* int(f) for the float64 f whose true value is v2/2 and which carries a
\* residue of sign pert; kept says that the rounding has kept the residue.
\* A half-integer is not moved across an integer by a residue.
TruncNear(v2, pert, kept) ==
    IF v2 % 2 # 0 \/ pert = 0 \/ ~kept THEN TruncDiv(v2, 2)
    ELSE IF pert < 0 THEN (IF v2 > 0 THEN (v2 \div 2) - 1 ELSE TruncDiv(v2, 2))
    ELSE (IF v2 < 0 THEN TruncDiv(v2, 2) + 1 ELSE v2 \div 2)

\* rotatedBounds(x + w/2, y + h/2, w, h, angleDeg) for a multiple of 90 degrees:
\* twice each coordinate is an integer, int() truncates toward zero, and
\* newW and newH carry the positive residue of |cos| or |sin|.
rotatedBounds(x, y, w, h, angleDeg, kept) ==
    LET cos == IF Cos4(angleDeg) < 0 THEN -Cos4(angleDeg) ELSE Cos4(angleDeg)
        sin == IF Sin4(angleDeg) < 0 THEN -Sin4(angleDeg) ELSE Sin4(angleDeg)
        newW == w * cos + h * sin
        newH == w * sin + h * cos
        res == IF CosResidue(angleDeg) # 0 \/ SinResidue(angleDeg) # 0 THEN 1 ELSE 0
    IN  Rect(TruncNear(2 * x + w - newW, -res, kept),
             TruncNear(2 * y + h - newH, -res, kept),
             TruncNear(2 * x + w + newW, res, kept) + 1,
             TruncNear(2 * y + h + newH, res, kept) + 1)

\* ix, iy := int(sx), int(sy) for the destination pixel (dx, dy).
sampleIX(tmp, x, y, rotation, fp, dx, dy) ==
    LET rx2 == 2 * dx - 2 * x - tmp.W
        ry2 == 2 * dy - 2 * y - tmp.H
    IN  TruncNear(rx2 * Cos4(rotation) + ry2 * Sin4(rotation) + tmp.W,
                  Sgn(rx2) * CosResidue(rotation) + Sgn(ry2) * SinResidue(rotation),
                  fp.sx)

sampleIY(tmp, x, y, rotation, fp, dx, dy) ==
    LET rx2 == 2 * dx - 2 * x - tmp.W
        ry2 == 2 * dy - 2 * y - tmp.H
    IN  TruncNear(ry2 * Cos4(rotation) - rx2 * Sin4(rotation) + tmp.H,
                  Sgn(ry2) * CosResidue(rotation) - Sgn(rx2) * SinResidue(rotation),
                  fp.sy)

\* The sampling loop of renderRotated: every destination pixel (dx, dy) of
\* the clamped bounds is visited once and takes the pixel (int(sx), int(sy))
\* of tmp, so the loop is given pixel by pixel.
rotateSample(im, tmp, x, y, rotation, bounds, fp) ==
    [im EXCEPT !.Pix =
        [i \in DOMAIN im.Pix |->
            LET ix == sampleIX(tmp, x, y, rotation, fp, PixX(im, i), PixY(im, i))
                iy == sampleIY(tmp, x, y, rotation, fp, PixX(im, i), PixY(im, i))
            IN  IF /\ InRect(bounds, PixX(im, i), PixY(im, i))
                   /\ ix >= 0 /\ ix < tmp.W /\ iy >= 0 /\ iy < tmp.H
                THEN IF tmp.Pix[iy * tmp.W + ix].A > 0
                     THEN BlendPixelValue(tmp.Pix[iy * tmp.W + ix], im.Pix[i])
                     ELSE im.Pix[i]
                ELSE im.Pix[i]]]

\* The elements of tmp.Pix and flipped.Pix that the flip loops index, as
\* pixel offsets (sOff, dOff, and the rows copied whole).
flipOffsets(w, h, flipH, flipV) ==
    IF ~(flipH \/ flipV) THEN {}
    ELSE UNION {{(IF flipV THEN h - 1 - py ELSE py) * w
                     + (IF flipH THEN w - 1 - px ELSE px),
                 py * w + px} : px \in 0 .. (w - 1), py \in 0 .. (h - 1)}

\* The elements of tmp.Pix that the sampling loop indexes (sOff), as pixel
\* offsets: one for every destination pixel of the clamped bounds whose
\* (ix, iy) passes the range test.
sampleOffsets(tmp, x, y, rotation, bounds, fp) ==
    {sampleIY(tmp, x, y, rotation, fp, d[1], d[2]) * tmp.W
         + sampleIX(tmp, x, y, rotation, fp, d[1], d[2]) :
        d \in {e \in (bounds.MinX .. (bounds.MaxX - 1)) \X (bounds.MinY .. (bounds.MaxY - 1)) :
                  /\ sampleIX(tmp, x, y, rotation, fp, e[1], e[2]) >= 0
                  /\ sampleIX(tmp, x, y, rotation, fp, e[1], e[2]) < tmp.W
                  /\ sampleIY(tmp, x, y, rotation, fp, e[1], e[2]) >= 0
                  /\ sampleIY(tmp, x, y, rotation, fp, e[1], e[2]) < tmp.H}}

\* The offsets into the w x h offscreen that renderRotated indexes.
renderRotatedOffsets(R, x, y, w, h, rotation, flipH, flipV) ==
    IF w <= 0 \/ h <= 0 THEN {}
    ELSE flipOffsets(w, h, flipH, flipV)
         \cup (IF rotation = 0 THEN {}
               ELSE sampleOffsets(NewRGBA(w, h), x, y, rotation,
                                  Intersect(rotatedBounds(x, y, w, h, rotation,
                                                          R.fp.bounds),
                                            Bounds(R.img)),
                                  R.fp))

\* (mutant) the offscreen drawn back unturned for every rotation.
renderRotatedUnturned(R, x, y, w, h, rotation, flipH, flipV, drawn) ==
    IF w <= 0 \/ h <= 0 THEN R
    ELSE [R EXCEPT !.img = drawImageOver(R.img, Rect(x, y, x + w, y + h),
                                         IF flipH \/ flipV
                                         THEN flipped(drawn.img, flipH, flipV)
                                         ELSE drawn.img),
                   !.log = drawn.log]

\* renderRotated; drawn is tmpR after drawFn(tmpR) has run.
renderRotated(R, x, y, w, h, rotation, flipH, flipV, drawn) ==
    IF w <= 0 \/ h <= 0 THEN R
    ELSE LET tmp == IF flipH \/ flipV THEN flipped(drawn.img, flipH, flipV) ELSE drawn.img
             out == IF rotation = 0 THEN drawImageOver(R.img, Rect(x, y, x + w, y + h), tmp)
                    ELSE rotateSample(R.img, tmp, x, y, rotation,
                                      Intersect(rotatedBounds(x, y, w, h, rotation,
                                                              R.fp.bounds),
                                                Bounds(R.img)),
                                      R.fp)
         IN  [R EXCEPT !.img = out, !.log = drawn.log]

-----------------------------------------------------------------------------
(* Image scaling *)

\* (mutant) the weights of the left and the right sample exchanged.
bilinearSwapped(p00, p10, p01, p11, fxn, fyn, dstW, dstH) ==
    uint8(TruncDiv((p10 * (dstW - fxn) + p00 * fxn) * (dstH - fyn)
                   + (p11 * (dstW - fxn) + p01 * fxn) * fyn, dstW * dstH))

\* One channel of the *image.RGBA fast path: sx0 = int(dx*srcW/dstW),
\* fx = frac(dx*srcW/dstW) = fxn/dstW, and likewise for y.
bilinear(p00, p10, p01, p11, fxn, fyn, dstW, dstH) ==
    uint8(TruncDiv((p00 * (dstW - fxn) + p10 * fxn) * (dstH - fyn)
                   + (p01 * (dstW - fxn) + p11 * fxn) * fyn, dstW * dstH))

\* src.(*image.RGBA): an image record is an *image.RGBA unless its kind
\* says otherwise ("NRGBA": a decoded picture with straight alpha).
IsRGBA(src) == "kind" \notin DOMAIN src \/ src.kind = "RGBA"

\* color.NRGBA.RGBA(): the 16-bit alpha-premultiplied channels.
NRGBA16(p) ==
    [R |-> (p.R * 257 * p.A) \div 255, G |-> (p.G * 257 * p.A) \div 255,
     B |-> (p.B * 257 * p.A) \div 255, A |-> p.A * 257]

\* lerp of the generic path: the 16-bit channels interpolated and divided
\* by 256.
lerp16(v00, v10, v01, v11, fxn, fyn, dstW, dstH) ==
    uint8(TruncDiv((v00 * (dstW - fxn) + v10 * fxn) * (dstH - fyn)
                   + (v01 * (dstW - fxn) + v11 * fxn) * fyn, dstW * dstH * 256))

\* The generic path, for a source of straight-alpha pixels.
scaleImageGeneric(src, dstW, dstH) ==
    [W |-> dstW, H |-> dstH,
     Pix |-> [i \in 0 .. (dstW * dstH - 1) |->
        LET dx == i % dstW
            dy == i \div dstW
            sx0 == (dx * src.W) \div dstW
            sy0 == (dy * src.H) \div dstH
            sx1 == IF sx0 + 1 >= src.W THEN src.W - 1 ELSE sx0 + 1
            sy1 == IF sy0 + 1 >= src.H THEN src.H - 1 ELSE sy0 + 1
            fxn == (dx * src.W) % dstW
            fyn == (dy * src.H) % dstH
            c00 == NRGBA16(src.Pix[sy0 * src.W + sx0])
            c10 == NRGBA16(src.Pix[sy0 * src.W + sx1])
            c01 == NRGBA16(src.Pix[sy1 * src.W + sx0])
            c11 == NRGBA16(src.Pix[sy1 * src.W + sx1])
        IN  RGBA(lerp16(c00.R, c10.R, c01.R, c11.R, fxn, fyn, dstW, dstH),
                 lerp16(c00.G, c10.G, c01.G, c11.G, fxn, fyn, dstW, dstH),
                 lerp16(c00.B, c10.B, c01.B, c11.B, fxn, fyn, dstW, dstH),
                 lerp16(c00.A, c10.A, c01.A, c11.A, fxn, fyn, dstW, dstH))]]

scaleImageBilinear(src, dstW, dstH) ==
    IF dstW <= 0 \/ dstH <= 0 THEN NewRGBA(1, 1)
    ELSE IF src.W <= 0 \/ src.H <= 0 THEN NewRGBA(dstW, dstH)
    ELSE IF ~IsRGBA(src) THEN scaleImageGeneric(src, dstW, dstH)
    ELSE [W |-> dstW, H |-> dstH,
          Pix |-> [i \in 0 .. (dstW * dstH - 1) |->
            LET dx == i % dstW
                dy == i \div dstW
                sx0 == (dx * src.W) \div dstW
                sy0 == (dy * src.H) \div dstH
                sx1 == IF sx0 + 1 >= src.W THEN src.W - 1 ELSE sx0 + 1
                sy1 == IF sy0 + 1 >= src.H THEN src.H - 1 ELSE sy0 + 1
                fxn == (dx * src.W) % dstW
                fyn == (dy * src.H) % dstH
                p00 == src.Pix[sy0 * src.W + sx0]
                p10 == src.Pix[sy0 * src.W + sx1]
                p01 == src.Pix[sy1 * src.W + sx0]
                p11 == src.Pix[sy1 * src.W + sx1]
            IN  RGBA(bilinear(p00.R, p10.R, p01.R, p11.R, fxn, fyn, dstW, dstH),
                     bilinear(p00.G, p10.G, p01.G, p11.G, fxn, fyn, dstW, dstH),
                     bilinear(p00.B, p10.B, p01.B, p11.B, fxn, fyn, dstW, dstH),
                     bilinear(p00.A, p10.A, p01.A, p11.A, fxn, fyn, dstW, dstH))]]

-----------------------------------------------------------------------------
(* Shape rendering.  Each operator takes the renderer R, the shape s and   *)
(* the shape's index path from the slide's list, and gives the renderer    *)
(* after the call.                                                         *)

\* pw := maxInt(int(float64(maxInt(width, 1)) * scaleX), 1)
penWidth(R, width) ==
    Max2(TruncDiv(Max2(width, 1) * R.scaleX[1], R.scaleX[2]), 1)

\* The steps of drawContent of renderRichText on the renderer tr.
shadowStep(tr, s, path, via, rect) ==
    IF s.shadow.Visible
    THEN Note(Draw(tr, renderShadow(tr.img, tr.scaleX, s.shadow, rect)),
              s, path, "shadow", via, rect)
    ELSE tr

fillStep(tr, s, path, via, rect) ==
    Note(Draw(tr, renderFill(tr.img, s.fill, rect)), s, path, "fill", via, rect)

borderStep(tr, s, path, via, rect) ==
    IF s.border.Style # "nil" /\ s.border.Style # "none"
    THEN Note(Draw(tr, drawRectBorder(tr.img, rect, argbToRGBA(s.border.Color),
                                      penWidth(tr, s.border.Width), s.border.Style)),
              s, path, "border", via, rect)
    ELSE tr

\* (mutant) the fill drawn before the shadow.
richTextContentFillFirst(tr, s, path, via, rect) ==
    Note(borderStep(shadowStep(fillStep(tr, s, path, via, rect), s, path, via, rect),
                    s, path, via, rect),
         s, path, "content", via, rect)

\* drawContent of renderRichText.  drawParagraphs returns at once for a shape
\* without paragraphs; the call is recorded.
richTextContent(tr, s, path, via, rect) ==
    Note(borderStep(fillStep(shadowStep(tr, s, path, via, rect), s, path, via, rect),
                    s, path, via, rect),
         s, path, "content", via, rect)

renderRichText(R, s, path) ==
    LET x == emuToPixelX(R, s.offsetX)
        y == emuToPixelY(R, s.offsetY)
        w == emuToPixelX(R, s.width)
        h == emuToPixelY(R, s.height)
    IN  IF s.rotation # 0 \/ s.flipH \/ s.flipV
        THEN renderRotated(R, x, y, w, h, s.rotation, s.flipH, s.flipV,
                 richTextContent(tmpRenderer(R, x, y, w, h), s, path, "rotated",
                                 Rect(0, 0, w, h)))
        ELSE richTextContent(R, s, path, "direct", Rect(x, y, x + w, y + h))

\* image.Decode of the shape's data: an error for "bad", else the picture.
DecodeFails(s) == s.data = "bad"

renderDrawing(R, s, path) ==
    LET x == emuToPixelX(R, s.offsetX)
        y == emuToPixelY(R, s.offsetY)
        w == emuToPixelX(R, s.width)
        h == emuToPixelY(R, s.height)
        drawImg(tr, via, rect) ==
            Note(Draw(tr, drawImageOver(tr.img, rect, scaleImageBilinear(s.picture, w, h))),
                 s, path, "image", via, rect)
    IN  IF s.data = "none" THEN R
        ELSE IF DecodeFails(s)
        THEN Note(Draw(R, drawRect(R.img, Rect(x, y, x + w, y + h),
                                   RGBA(200, 200, 200, 255), 1)),
                  s, path, "placeholder", "direct", Rect(x, y, x + w, y + h))
        ELSE IF s.rotation # 0 \/ s.flipH \/ s.flipV
        THEN renderRotated(R, x, y, w, h, s.rotation, s.flipH, s.flipV,
                 drawImg(tmpRenderer(R, x, y, w, h), "rotated", Rect(0, 0, w, h)))
        ELSE drawImg(R, "direct", Rect(x, y, x + w, y + h))

\* renderAutoShapeFill for the rectangle shape type (the default case).
renderAutoShapeFill(tr, s, path, via, rect) ==
    Note(Draw(tr, IF s.fill.Type = "nil" \/ s.fill.Type = "none" THEN tr.img
                  ELSE renderFill(tr.img, s.fill, rect)),
         s, path, "fill", via, rect)

\* renderAutoShapeBorder for the rectangle shape type (the default case).
renderAutoShapeBorder(tr, s, path, via, rect) ==
    Note(Draw(tr, IF s.border.Style = "nil" \/ s.border.Style = "none" THEN tr.img
                  ELSE drawRectBorder(tr.img, rect, argbToRGBA(s.border.Color),
                                      penWidth(tr, s.border.Width), s.border.Style)),
         s, path, "border", via, rect)

\* drawContent of renderAutoShape, for a shape without text.
autoShapeContent(tr, s, path, via, rect) ==
    renderAutoShapeBorder(
        renderAutoShapeFill(shadowStep(tr, s, path, via, rect), s, path, via, rect),
        s, path, via, rect)

renderAutoShape(R, s, path) ==
    LET x == emuToPixelX(R, s.offsetX)
        y == emuToPixelY(R, s.offsetY)
        w == emuToPixelX(R, s.width)
        h == emuToPixelY(R, s.height)
    IN  IF s.rotation # 0 \/ s.flipH \/ s.flipV
        THEN renderRotated(R, x, y, w, h, s.rotation, s.flipH, s.flipV,
                 autoShapeContent(tmpRenderer(R, x, y, w, h), s, path, "rotated",
                                  Rect(0, 0, w, h)))
        ELSE autoShapeContent(R, s, path, "direct", Rect(x, y, x + w, y + h))

renderLine(R, s, path) ==
    LET x1 == emuToPixelX(R, s.offsetX)
        y1 == emuToPixelY(R, s.offsetY)
        x2 == emuToPixelX(R, s.offsetX + s.width)
        y2 == emuToPixelY(R, s.offsetY + s.height)
    IN  Note(Draw(R, drawLineAA(R.img, x1, y1, x2, y2, argbToRGBA(s.lineColor),
                                penWidth(R, s.lineWidth))),
             s, path, "line", "direct", Rect(x1, y1, x2, y2))

\* The cell loops of renderTable, cell k = row*numCols + col.  Every cell has
\* the fill cellFill, no border of its own and no paragraphs.
RECURSIVE renderCells(_, _, _, _, _, _, _)
renderCells(im, s, x, y, cellW, cellH, k) ==
    IF k >= s.numRows * s.numCols THEN im
    ELSE LET cx == x + (k % s.numCols) * cellW
             cy == y + (k \div s.numCols) * cellH
             cellRect == Rect(cx, cy, cx + cellW, cy + cellH)
         IN  renderCells(drawRect(renderFill(im, s.cellFill, cellRect), cellRect,
                                  RGBA(0, 0, 0, 255), 1),
                         s, x, y, cellW, cellH, k + 1)

renderTable(R, s, path) ==
    LET x == emuToPixelX(R, s.offsetX)
        y == emuToPixelY(R, s.offsetY)
        w == emuToPixelX(R, s.width)
        h == emuToPixelY(R, s.height)
    IN  IF s.numRows = 0 \/ s.numCols = 0 THEN R
        ELSE Note(Draw(R, renderCells(R.img, s, x, y, TruncDiv(w, s.numCols),
                                      TruncDiv(h, s.numRows), 0)),
                  s, path, "cells", "direct", Rect(x, y, x + w, y + h))

\* renderChart for a chart without title whose plot area has no chart type:
\* the white background and the grey frame.
renderChart(R, s, path) ==
    LET x == emuToPixelX(R, s.offsetX)
        y == emuToPixelY(R, s.offsetY)
        w == emuToPixelX(R, s.width)
        h == emuToPixelY(R, s.height)
        rect == Rect(x, y, x + w, y + h)
    IN  Note(Draw(R, drawRect(fillRectFast(R.img, rect, RGBA(255, 255, 255, 255)),
                              rect, RGBA(200, 200, 200, 255), 1)),
             s, path, "chart", "direct", rect)

RECURSIVE renderShape(_, _, _)

\* for _, gs := range shapes { r.renderShape(gs) }, from index k on
RECURSIVE renderShapes(_, _, _, _)
renderShapes(R, shapes, path, k) ==
    IF k > Len(shapes) THEN R
    ELSE renderShapes(renderShape(R, shapes[k], Append(path, k)), shapes, path, k + 1)

renderGroup(R, g, path) ==
    IF g.rotation = 0 /\ ~g.flipH /\ ~g.flipV THEN renderShapes(R, g.shapes, path, 1)
    ELSE LET x == emuToPixelX(R, g.offsetX)
             y == emuToPixelY(R, g.offsetY)
             w == emuToPixelX(R, g.width)
             h == emuToPixelY(R, g.height)
         IN  renderRotated(R, x, y, w, h, g.rotation, g.flipH, g.flipV,
                 renderShapes(tmpRenderer(R, x, y, w, h), g.shapes, path, 1))

renderShape(R, shape, path) ==
    CASE shape.kind = "RichText" -> renderRichText(R, shape, path)
      [] shape.kind = "Placeholder" -> renderRichText(R, shape, path)
      [] shape.kind = "Drawing" -> renderDrawing(R, shape, path)
      [] shape.kind = "AutoShape" -> renderAutoShape(R, shape, path)
      [] shape.kind = "Line" -> renderLine(R, shape, path)
      [] shape.kind = "Table" -> renderTable(R, shape, path)
      [] shape.kind = "Chart" -> renderChart(R, shape, path)
      [] shape.kind = "Group" -> renderGroup(R, shape, path)
      [] OTHER -> R

-----------------------------------------------------------------------------
(* Text: bullet numbers and line wrapping.  A string is the sequence of its *)
(* characters, each a one-character string.                                 *)

DigitChars == <<"0", "1", "2", "3", "4", "5", "6", "7", "8", "9">>

RECURSIVE DecimalDigits(_)
DecimalDigits(n) ==
    IF n < 10 THEN <<DigitChars[n + 1]>>
    ELSE Append(DecimalDigits(n \div 10), DigitChars[(n % 10) + 1])

\* fmt.Sprintf("%d", n)
SprintfD(n) == IF n < 0 THEN <<"-">> \o DecimalDigits(-n) ELSE DecimalDigits(n)

RomanVals == <<1000, 900, 500, 400, 100, 90, 50, 40, 10, 9, 5, 4, 1>>
RomanSyms == << <<"M">>, <<"C", "M">>, <<"D">>, <<"C", "D">>, <<"C">>, <<"X", "C">>,
                <<"L">>, <<"X", "L">>, <<"X">>, <<"I", "X">>, <<"V">>, <<"I", "V">>,
                <<"I">> >>

\* for i, v := range vals { for num >= v { buf.WriteString(syms[i]); num -= v } }
RECURSIVE toRomanFrom(_, _)
toRomanFrom(num, i) ==
    IF i > Len(RomanVals) THEN <<>>
    ELSE IF num >= RomanVals[i]
    THEN RomanSyms[i] \o toRomanFrom(num - RomanVals[i], i)
    ELSE toRomanFrom(num, i + 1)

\* (mutant) the largest numeral left out of the range.
toRomanOpenRange(num) ==
    IF num <= 0 \/ num >= 3999 THEN SprintfD(num) ELSE toRomanFrom(num, 1)

toRoman(num) ==
    IF num <= 0 \/ num > 3999 THEN SprintfD(num) ELSE toRomanFrom(num, 1)

UpperLetters == <<"A", "B", "C", "D", "E", "F", "G", "H", "I", "J", "K", "L", "M",
                  "N", "O", "P", "Q", "R", "S", "T", "U", "V", "W", "X", "Y", "Z">>
LowerLetters == <<"a", "b", "c", "d", "e", "f", "g", "h", "i", "j", "k", "l", "m",
                  "n", "o", "p", "q", "r", "s", "t", "u", "v", "w", "x", "y", "z">>

\* strings.ToLower on a string of upper-case letters, digits and "-".
ToLower(str) ==
    [k \in 1 .. Len(str) |->
        IF \E j \in 1 .. Len(UpperLetters) : UpperLetters[j] = str[k]
        THEN LowerLetters[CHOOSE j \in 1 .. Len(UpperLetters) : UpperLetters[j] = str[k]]
        ELSE str[k]]

formatBulletNumber(num, format) ==
    CASE format = "romanUcPeriod" -> toRoman(num) \o <<".">>
      [] format = "romanLcPeriod" -> ToLower(toRoman(num)) \o <<".">>
      [] format = "alphaUcPeriod" ->
            IF num >= 1 /\ num <= 26 THEN <<UpperLetters[num], ".">>
            ELSE SprintfD(num) \o <<".">>
      [] format = "alphaLcPeriod" ->
            IF num >= 1 /\ num <= 26 THEN <<LowerLetters[num], ".">>
            ELSE SprintfD(num) \o <<".">>
      [] format = "alphaLcParenR" ->
            IF num >= 1 /\ num <= 26 THEN <<LowerLetters[num], ")">>
            ELSE SprintfD(num) \o <<")">>
      [] format = "arabicParenR" -> SprintfD(num) \o <<")">>
      [] OTHER -> SprintfD(num) \o <<".">>

\* font.MeasureString(face, text).Ceil() for a face whose glyphs, the space
\* included, advance by one pixel and have no kerning.
MeasureString(text) == Len(text)

\* textRun{text, font, face, width}; face is "nil" or "face".
textRun(text, face) ==
    [text |-> text, face |-> face,
     width |-> IF face = "nil" THEN 0 ELSE MeasureString(text)]

\* The run of a BreakElement: textRun{text: "\n"}.
BreakRun == [text |-> <<"\n">>, face |-> "nil", width |-> 0]

\* NewFont(): Calibri, 10 pt, black.
NewFont == [Name |-> "Calibri", Size |-> 10, Color |-> ARGB(255, 0, 0, 0)]

\* The font of the first element of para.elements that is a *TextRun with a
\* font, if there is one: for _, elem := range para.elements { ...; break }
RECURSIVE firstRunFont(_, _)
firstRunFont(elements, k) ==
    IF k > Len(elements) THEN [found |-> FALSE, font |-> NewFont]
    ELSE IF elements[k].kind = "TextRun" /\ ~elements[k].fontNil
    THEN [found |-> TRUE, font |-> elements[k].font]
    ELSE firstRunFont(elements, k + 1)

\* buildBulletRun(b, para): the bullet is nil or the record of its fields
\* (Color nil or set, Font "" or a name); the result is the textRun with
\* its font.
buildBulletRun(b, para) ==
    IF b.isNil \/ b.Type = "None"
    THEN [text |-> <<>>, font |-> [isNil |-> TRUE, f |-> NewFont], face |-> "nil",
          width |-> 0]
    ELSE LET sized == [NewFont EXCEPT !.Size = IF firstRunFont(para.elements, 1).found
                                               THEN firstRunFont(para.elements, 1).font.Size
                                               ELSE 10]
             coloured == IF ~b.Color.isNil THEN [sized EXCEPT !.Color = b.Color.c]
                         ELSE sized
             bulletFont == IF b.Font # "" THEN [coloured EXCEPT !.Name = b.Font]
                           ELSE coloured
             text == IF b.Type = "Char" THEN b.Style \o <<" ">>
                     ELSE formatBulletNumber(IF b.StartAt < 1 THEN 1 ELSE b.StartAt,
                                             b.NumFormat) \o <<" ">>
         IN  [text |-> text, font |-> [isNil |-> FALSE, f |-> bulletFont],
              face |-> "face", width |-> MeasureString(text)]

\* strings.Fields: the maximal substrings without white space.
RECURSIVE FieldsFrom(_, _, _)
FieldsFrom(text, i, word) ==
    IF i > Len(text) THEN (IF word = <<>> THEN <<>> ELSE <<word>>)
    ELSE IF text[i] = " "
    THEN (IF word = <<>> THEN <<>> ELSE <<word>>) \o FieldsFrom(text, i + 1, <<>>)
    ELSE FieldsFrom(text, i + 1, Append(word, text[i]))

Fields(text) == FieldsFrom(text, 1, <<>>)

RECURSIVE SumWidth(_, _)
SumWidth(runs, k) == IF k > Len(runs) THEN 0 ELSE runs[k].width + SumWidth(runs, k + 1)

\* buildTextLine: the runs and their total width (ascent, descent and
\* lineHeight are the same for every line of the one face).
buildTextLine(runs) == [runs |-> runs, width |-> SumWidth(runs, 1)]

\* The state of the loops of wrapRunLine: lines, currentRuns, currentWidth.
flushLine(st, runs) ==
    [lines |-> Append(st.lines, buildTextLine(runs)), currentRuns |-> <<>>,
     currentWidth |-> 0]

\* The word loop of wrapRunLine from word i on, partial being the builder.
RECURSIVE wrapWords(_, _, _, _, _, _)
wrapWords(st, run, words, maxWidth, i, partial) ==
    IF i > Len(words)
    THEN IF partial # <<>>
         THEN [st EXCEPT !.currentRuns = Append(@, textRun(partial, run.face)),
                         !.currentWidth = @ + MeasureString(partial)]
         ELSE st
    ELSE LET test == partial \o (IF i > 1 THEN <<" ">> ELSE <<>>) \o words[i]
             tw == MeasureString(test)
         IN  IF st.currentWidth + tw > maxWidth /\ (st.currentRuns # <<>> \/ partial # <<>>)
             THEN wrapWords(flushLine(st, IF partial # <<>>
                                          THEN Append(st.currentRuns,
                                                      textRun(partial, run.face))
                                          ELSE st.currentRuns),
                            run, words, maxWidth, i + 1, words[i])
             ELSE wrapWords(st, run, words, maxWidth, i + 1,
                            IF partial # <<>> THEN partial \o <<" ">> \o words[i]
                            ELSE words[i])

\* One iteration of the run loop of wrapRunLine.
wrapRun(st, run, maxWidth) ==
    IF run.text = <<"\n">> THEN flushLine(st, st.currentRuns)
    ELSE IF run.face = "nil" THEN st
    ELSE IF st.currentWidth + run.width <= maxWidth \/ st.currentRuns = <<>>
    THEN [st EXCEPT !.currentRuns = Append(@, run), !.currentWidth = @ + run.width]
    ELSE IF Len(Fields(run.text)) <= 1
    THEN [(IF st.currentRuns # <<>> THEN flushLine(st, st.currentRuns) ELSE st)
              EXCEPT !.currentRuns = Append(@, run), !.currentWidth = run.width]
    ELSE wrapWords(st, run, Fields(run.text), maxWidth, 1, <<>>)

RECURSIVE wrapRuns(_, _, _, _)
wrapRuns(st, runs, maxWidth, k) ==
    IF k > Len(runs) THEN st
    ELSE wrapRuns(wrapRun(st, runs[k], maxWidth), runs, maxWidth, k + 1)

\* wrapRunLine: the lines, nil (no line) for no runs.
wrapRunLine(runs, maxWidth) ==
    IF runs = <<>> THEN <<>>
    ELSE LET st == wrapRuns([lines |-> <<>>, currentRuns |-> <<>>, currentWidth |-> 0],
                            runs, IF maxWidth <= 0 THEN 1 ELSE maxWidth, 1)
         IN  IF st.currentRuns # <<>> THEN Append(st.lines, buildTextLine(st.currentRuns))
             ELSE st.lines

-----------------------------------------------------------------------------
(* Paragraph layout.  The glyphs are drawn by font.Drawer of the font      *)
(* library; the model keeps where each line is placed.                      *)

\* r.getFace(f): the face of the font, named by its size class.
getFace(f) == IF f.Size >= 24 THEN "large" ELSE "face"

\* face.Metrics().Ascent.Ceil() and Descent.Ceil() of the two faces.
FaceAscent(face) == IF face = "large" THEN 23 ELSE 11
FaceDescent(face) == IF face = "large" THEN 6 ELSE 3

\* ascent, descent and lineHeight as buildTextLine sets them.
textLineMetrics(runs) ==
    LET faces == {runs[k].face : k \in {j \in 1 .. Len(runs) : runs[j].face # "nil"}}
        ascent == IF faces = {} THEN 0
                  ELSE CHOOSE a \in {FaceAscent(f) : f \in faces} :
                           \A f \in faces : FaceAscent(f) <= a
        descent == IF faces = {} THEN 0
                   ELSE CHOOSE d \in {FaceDescent(f) : f \in faces} :
                            \A f \in faces : FaceDescent(f) <= d
    IN  [ascent |-> ascent, descent |-> descent,
         lineHeight |-> IF ascent + descent < 1 THEN 14 ELSE ascent + descent]

\* The runs of the elements of a paragraph from element k on.
RECURSIVE elementRuns(_, _)
elementRuns(elements, k) ==
    IF k > Len(elements) THEN <<>>
    ELSE (IF elements[k].kind = "Break" THEN <<BreakRun>>
          ELSE IF elements[k].text = <<>> THEN <<>>
          ELSE <<textRun(elements[k].text,
                         getFace(IF elements[k].fontNil THEN NewFont
                                 ELSE elements[k].font))>>)
         \o elementRuns(elements, k + 1)

\* paraRuns: the bullet run, when it has a text, and the runs of the elements.
paragraphRuns(para) ==
    LET bRun == buildBulletRun(para.bullet, para)
    IN  (IF ~para.bullet.isNil /\ para.bullet.Type # "None" /\ bRun.text # <<>>
         THEN <<[text |-> bRun.text, face |-> bRun.face, width |-> bRun.width]>>
         ELSE <<>>) \o elementRuns(para.elements, 1)

\* The lineInfo records of paragraph pi laid out in a box of width w.
paragraphLines(R, para, pi, w) ==
    LET marginLeft == IF para.alignment.isNil THEN 0
                      ELSE emuToPixelX(R, para.alignment.MarginLeft)
        marginRight == IF para.alignment.isNil THEN 0
                       ELSE emuToPixelX(R, para.alignment.MarginRight)
        indent == IF para.alignment.isNil THEN 0
                  ELSE emuToPixelX(R, para.alignment.Indent)
        availW == IF w - marginLeft - marginRight - indent < 10 THEN w
                  ELSE w - marginLeft - marginRight - indent
        wrapped == wrapRunLine(paragraphRuns(para), availW)
        lines == IF wrapped = <<>>
                 THEN <<[runs |-> <<>>, width |-> 0, ascent |-> 0, descent |-> 0,
                         lineHeight |-> 14]>>
                 ELSE [i \in 1 .. Len(wrapped) |->
                          [runs |-> wrapped[i].runs, width |-> wrapped[i].width,
                           ascent |-> textLineMetrics(wrapped[i].runs).ascent,
                           descent |-> textLineMetrics(wrapped[i].runs).descent,
                           lineHeight |-> textLineMetrics(wrapped[i].runs).lineHeight]]
    IN  [i \in 1 .. Len(lines) |->
            [line |-> lines[i], lineSpacing |-> para.lineSpacing,
             hAlign |-> IF para.alignment.isNil THEN "left"
                        ELSE para.alignment.Horizontal,
             paraIdx |-> pi, isFirst |-> i = 1, isLast |-> i = Len(lines),
             spaceBefore |-> IF i = 1 THEN emuToPixelY(R, para.spaceBefore) ELSE 0,
             spaceAfter |-> IF i = Len(lines) THEN emuToPixelY(R, para.spaceAfter)
                            ELSE 0]]

RECURSIVE allLinesFrom(_, _, _, _)
allLinesFrom(R, paragraphs, pi, w) ==
    IF pi > Len(paragraphs) THEN <<>>
    ELSE paragraphLines(R, paragraphs[pi], pi, w) \o allLinesFrom(R, paragraphs, pi + 1, w)

\* lh: the line height, scaled when lineSpacing > 0 by
\* int(float64(lh) * float64(lineSpacing) / 10000.0).
scaledLineHeight(li) ==
    IF li.lineSpacing > 0 THEN TruncDiv(li.line.lineHeight * li.lineSpacing, 10000)
    ELSE li.line.lineHeight

\* The loop that sums totalH, from line i on.
RECURSIVE totalHeightFrom(_, _)
totalHeightFrom(allLines, i) ==
    IF i > Len(allLines) THEN 0
    ELSE (IF i > 1 THEN allLines[i].spaceBefore ELSE 0)
         + scaledLineHeight(allLines[i]) + allLines[i].spaceAfter
         + totalHeightFrom(allLines, i + 1)

\* (mutant) the space before the first line is counted too.
totalHeightAllGaps(allLines) ==
    totalHeightFrom(allLines, 1) + (IF allLines = <<>> THEN 0 ELSE allLines[1].spaceBefore)

totalHeight(allLines) == totalHeightFrom(allLines, 1)

\* lineX of the line li of paragraph para.
lineStartX(R, li, para, x, w) ==
    IF li.hAlign = "center" THEN x + TruncDiv(w - li.line.width, 2)
    ELSE IF li.hAlign = "right"
    THEN x + w - li.line.width
         - (IF para.alignment.isNil THEN 0 ELSE emuToPixelX(R, para.alignment.MarginRight))
    ELSE x + (IF para.alignment.isNil THEN 0
              ELSE emuToPixelX(R, para.alignment.MarginLeft)
                   + (IF li.isFirst THEN emuToPixelX(R, para.alignment.Indent) ELSE 0))

\* The drawing loop from line i on with curY as the loop enters: the
\* position of every line, and in the last record the curY the loop ends with.
RECURSIVE placeFrom(_, _, _, _, _, _, _)
placeFrom(R, paragraphs, allLines, i, curY, x, w) ==
    IF i > Len(allLines) THEN <<[end |-> TRUE, curY |-> curY]>>
    ELSE LET li == allLines[i]
             top == IF i > 1 THEN curY + li.spaceBefore ELSE curY
         IN  <<[end |-> FALSE, curY |-> top, baseline |-> top + li.line.ascent,
                lineX |-> lineStartX(R, li, paragraphs[li.paraIdx], x, w),
                lh |-> scaledLineHeight(li), spaceAfter |-> li.spaceAfter]>>
             \o placeFrom(R, paragraphs, allLines, i + 1,
                          top + scaledLineHeight(li) + li.spaceAfter, x, w)

\* startY: the vertical anchor offset.
anchorStartY(anchor, y, h, totalH) ==
    IF anchor = "middle" THEN y + TruncDiv(h - totalH, 2)
    ELSE IF anchor = "bottom" THEN y + h - totalH
    ELSE y

\* drawParagraphs(paragraphs, x, y, w, h, anchor): totalH, startY and the
\* placed lines; nothing for no paragraphs.
drawParagraphs(R, paragraphs, x, y, w, h, anchor) ==
    IF Len(paragraphs) = 0
    THEN [drawn |-> FALSE, totalH |-> 0, startY |-> y, placed |-> <<>>]
    ELSE [drawn |-> TRUE,
          totalH |-> totalHeight(allLinesFrom(R, paragraphs, 1, w)),
          startY |-> anchorStartY(anchor, y, h,
                                  totalHeight(allLinesFrom(R, paragraphs, 1, w))),
          placed |-> placeFrom(R, paragraphs, allLinesFrom(R, paragraphs, 1, w), 1,
                               anchorStartY(anchor, y, h,
                                   totalHeight(allLinesFrom(R, paragraphs, 1, w))),
                               x, w)]

-----------------------------------------------------------------------------
(* SlideToImage *)

DefaultWidth == 960

NoColor == [isNil |-> TRUE, c |-> RGBA(0, 0, 0, 0)]
SomeColor(c) == [isNil |-> FALSE, c |-> c]

\* *RenderOptions: nil, or the fields Width and BackgroundColor.
NilOptions == [isNil |-> TRUE, Width |-> 0, BackgroundColor |-> NoColor]
RenderOptions(w, bg) == [isNil |-> FALSE, Width |-> w, BackgroundColor |-> bg]
DefaultRenderOptions == RenderOptions(960, NoColor)

newSlide == [background |-> NilFill, shapes |-> <<>>]

\* (mutant) the last slide taken as out of range.
indexOutOfRangeOffByOne(slideIndex, n) == slideIndex < 0 \/ slideIndex >= n - 1

\* if slideIndex < 0 || slideIndex >= len(p.slides)
indexOutOfRange(slideIndex, n) == slideIndex < 0 \/ slideIndex >= n

\* opts after the two defaulting statements.
optsInEffect(o) ==
    LET a == IF o.isNil THEN DefaultRenderOptions ELSE o
    IN  IF a.Width <= 0 THEN [a EXCEPT !.Width = DefaultWidth] ELSE a

\* (mutant) the height rounded to the nearest integer.
imageHeightRounded(imgW, layout) ==
    LET f == Fraction(layout.CY, layout.CX) IN (2 * imgW * f[1] + f[2]) \div (2 * f[2])

\* imgH := int(float64(imgW) * slideH / slideW)
imageHeight(imgW, layout) == MulDivTrunc(imgW, layout.CY, layout.CX)

WindowLimit == 16

\* Pixels watched on canvases of more than WindowLimit pixels.
Probes == {<<0, 0>>, <<95, 95>>, <<96, 96>>, <<287, 239>>, <<288, 240>>,
           <<289, 240>>, <<959, 719>>,
           <<0, 5>>, <<50, 5>>, <<99, 5>>,
           <<192, 168>>, <<121, 73>>, <<262, 262>>, <<192, 80>>,
           <<100, 100>>, <<118, 70>>, <<266, 168>>, <<192, 266>>}

\* The pixels of the canvas the model keeps: all of them up to WindowLimit
\* pixels, the probes beyond that.
Observed(w, h) ==
    IF w * h <= WindowLimit THEN 0 .. (w * h - 1)
    ELSE {q[2] * w + q[1] : q \in {q \in Probes : q[1] < w /\ q[2] < h}}

newRenderer(p, o) ==
    LET imgW == o.Width
        imgH == imageHeight(imgW, p.layout)
    IN  [img |-> NewRGBAOn(imgW, imgH, Observed(imgW, imgH)),
         scaleX |-> Fraction(imgW, p.layout.CX),
         scaleY |-> Fraction(imgH, p.layout.CY),
         fp |-> ExactFloat, base |-> <<0, 0>>, log |-> <<>>]

\* (mutant) the slide's solid colour taken before the override.
bgColorSlideFirst(o, slide) ==
    IF slide.background.Type = "solid" THEN argbToRGBA(slide.background.Color)
    ELSE IF ~o.BackgroundColor.isNil THEN o.BackgroundColor.c
    ELSE RGBA(255, 255, 255, 255)

\* bgColor at the fill: the override, the slide's solid colour, or white.
bgColor(o, slide) ==
    IF ~o.BackgroundColor.isNil THEN o.BackgroundColor.c
    ELSE IF slide.background.Type = "solid" THEN argbToRGBA(slide.background.Color)
    ELSE RGBA(255, 255, 255, 255)

\* The background: a linear gradient of the slide is drawn when there is no
\* override, any other background is one fill with bgColor.
fillBackground(R, o, slide) ==
    [R EXCEPT !.img = IF o.BackgroundColor.isNil /\ slide.background.Type = "linear"
                      THEN fillGradientLinear(R.img, Bounds(R.img), slide.background,
                                              R.fp.lerp)
                      ELSE fillRectFast(R.img, Bounds(R.img), bgColor(o, slide)),
              !.log = Append(@, [path |-> <<>>, kind |-> "Background",
                                 stage |-> "background", via |-> "direct",
                                 transformed |-> FALSE, base |-> <<0, 0>>,
                                 rect |-> Bounds(R.img)])]

\* The body of SlideToImage for an index in range: the renderer at return.
renderSlide(p, slideIndex, o) ==
    LET slide == p.slides[slideIndex + 1]
    IN  renderShapes(fillBackground(newRenderer(p, o), o, slide), slide.shapes, <<>>, 1)

NoImage == NewRGBA(0, 0)
NoCall == [made |-> FALSE, slideIndex |-> 0, opts |-> NilOptions]
NoReturn == [nilImage |-> TRUE, img |-> NoImage, err |-> FALSE, log |-> <<>>]

-----------------------------------------------------------------------------
(* The rendering entry point driven by a caller: slides are composed with  *)
(* AddShape and SetBackground and then rendered with SlideToImage.         *)

MaxSlides == 2
MaxEdits == 2
\* A layout of 4 x 3 units, rendered at one pixel per unit when Width = 4,
\* and the 4:3 layout of a presentation file.
SmallLayout == [CX |-> 4, CY |-> 3]
ScreenLayout == [CX |-> 9144000, CY |-> 6858000]
Layouts == {SmallLayout, ScreenLayout}

Red == ARGB(255, 255, 0, 0)
Blue == ARGB(255, 0, 0, 255)
Black == ARGB(255, 0, 0, 0)
HalfGreen == ARGB(128, 0, 255, 0)
ClearRed == ARGB(0, 255, 0, 0)

Box(kind, ox, oy, w, h, c) == [NewShape(kind, ox, oy, w, h) EXCEPT !.fill = SolidFill(c)]

Shadowed(s, dir, blur) ==
    [s EXCEPT !.shadow = [Visible |-> TRUE, Direction |-> dir, Distance |-> 1,
                          BlurRadius |-> blur, Color |-> Black, Alpha |-> 50]]

Bordered(s, style, c) == [s EXCEPT !.border = [Style |-> style, Width |-> 1, Color |-> c]]

Rotated(s, deg) == [s EXCEPT !.rotation = deg]
FlippedH(s) == [s EXCEPT !.flipH = TRUE]
FlippedV(s) == [s EXCEPT !.flipV = TRUE]

\* A decoded 2 x 1 picture: a red pixel left of a blue one.
Picture == [W |-> 2, H |-> 1, Pix |-> [i \in 0 .. 1 |-> IF i = 0 THEN RGBA(255, 0, 0, 255)
                                                        ELSE RGBA(0, 0, 255, 255)]]

Drawing(ox, oy, w, h, data) ==
    [NewShape("Drawing", ox, oy, w, h) EXCEPT !.data = data, !.picture = Picture]

Line(ox, oy, w, h) == [NewShape("Line", ox, oy, w, h) EXCEPT !.lineColor = Red]

Table(ox, oy, w, h, rows, cols) ==
    [NewShape("Table", ox, oy, w, h) EXCEPT !.numRows = rows, !.numCols = cols,
                                           !.cellFill = SolidFill(Blue)]

Group(ox, oy, w, h, children) == [NewShape("Group", ox, oy, w, h) EXCEPT !.shapes = children]

\* Boxes without border or blur: drawn with a few rectangle fills at any scale.
PlainShapes ==
    { Box("RichText", 0, 0, 2, 2, Red),
      Shadowed(Box("RichText", 1, 1, 2, 2, Blue), 0, 0),
      Shadowed(Box("AutoShape", 1, 0, 2, 2, HalfGreen), 180, 0),
      Box("Placeholder", 2, 1, 2, 2, ClearRed) }

\* One of each remaining way through the dispatcher, without and with a
\* rotation or flip.  A rotated box has w + h odd.
OtherShapes ==
    { Bordered(Shadowed(Box("RichText", 1, 0, 2, 3, Blue), 90, 2), "solid", Red),
      Bordered(Box("Placeholder", 0, 0, 3, 2, HalfGreen), "dot", Black),
      Rotated(Bordered(Box("RichText", 1, 1, 2, 1, Red), "solid", Blue), 90),
      FlippedH(Shadowed(Box("Placeholder", 0, 1, 3, 1, Blue), 0, 0)),
      Rotated(Bordered(Box("AutoShape", 2, 0, 1, 2, Red), "dash", Black), 270),
      Drawing(1, 1, 2, 1, "png"),
      FlippedH(Drawing(1, 1, 2, 1, "png")),
      Rotated(Drawing(0, 0, 2, 1, "png"), 90),
      Rotated(Drawing(1, 0, 2, 3, "bad"), 90),
      Drawing(0, 0, 3, 3, "bad"),
      Drawing(0, 0, 2, 1, "none"),
      Line(0, 0, 2, 2),
      FlippedV(Line(0, 0, 2, 2)),
      Table(0, 0, 4, 2, 1, 2),
      Rotated(Table(0, 0, 2, 3, 1, 1), 90),
      NewShape("Chart", 1, 0, 3, 3),
      FlippedV(NewShape("Chart", 0, 0, 3, 2)),
      Group(1, 1, 2, 2, <<Box("RichText", 0, 0, 1, 1, Red)>>),
      FlippedH(Group(1, 1, 2, 1, <<Box("RichText", 0, 0, 1, 1, Red)>>)),
      Rotated(Group(1, 0, 2, 3, <<Box("AutoShape", 1, 0, 1, 2, Blue),
                                  FlippedV(Line(0, 0, 1, 2))>>), 270) }

\* Scenario S2: the red box of one by one and a half inches.
S2Shape == Box("RichText", 914400, 914400, 1828800, 1371600, Red)

Catalogue(layout) == IF layout = SmallLayout THEN PlainShapes \cup OtherShapes ELSE {S2Shape}

Backgrounds == {SolidFill(ARGB(255, 255, 255, 255)), SolidFill(ClearRed),
                [Type |-> "none", Color |-> Black], LinearFill(Red, Blue, 0)}

RenderOptionsSet ==
    { NilOptions, RenderOptions(0, NoColor), RenderOptions(1, NoColor),
      RenderOptions(2, NoColor), RenderOptions(3, NoColor), RenderOptions(4, NoColor),
      RenderOptions(960, NoColor),
      RenderOptions(4, SomeColor(RGBA(255, 0, 0, 0))),
      RenderOptions(4, SomeColor(RGBA(0, 0, 255, 255))) }

Plain(s) ==
    /\ s.kind \in {"RichText", "Placeholder", "AutoShape"}
    /\ ~Transformed(s)
    /\ s.border.Style = "nil"
    /\ s.shadow.BlurRadius = 0

\* Slides holding other than plain boxes, and slides with a gradient
\* background, are rendered at one pixel per unit (where the gradient's
\* float64 operations are exact).
Renderable(p, slideIndex, o) ==
    IF indexOutOfRange(slideIndex, Len(p.slides)) THEN TRUE
    ELSE IF optsInEffect(o).Width = p.layout.CX THEN TRUE
    ELSE IF p.slides[slideIndex + 1].background.Type = "linear" THEN FALSE
    ELSE \A k \in 1 .. Len(p.slides[slideIndex + 1].shapes) :
             Plain(p.slides[slideIndex + 1].shapes[k])

RECURSIVE SumLen(_, _)
SumLen(slides, k) ==
    IF k > Len(slides) THEN 0
    ELSE Len(slides[k].shapes) + (IF slides[k].background.Type = "nil" THEN 0 ELSE 1)
         + SumLen(slides, k + 1)

Init ==
    /\ \E l \in Layouts, n \in 0 .. MaxSlides :
          pres = [layout |-> l, slides |-> [k \in 1 .. n |-> newSlide]]
    /\ opts = NilOptions
    /\ call = NoCall
    /\ ret = NoReturn
    /\ img = NoImage /\ img0 = NoImage /\ prev = NoImage /\ ops = <<>>

\* s.shapes = append(s.shapes, shape)
AddShape ==
    \E i \in 1 .. Len(pres.slides), s \in Catalogue(pres.layout) :
        /\ ~call.made
        /\ SumLen(pres.slides, 1) < MaxEdits
        /\ pres' = [pres EXCEPT !.slides[i].shapes = Append(@, s)]
        /\ UNCHANGED <<opts, call, ret, canvasVars>>

\* s.background = f
SetBackground ==
    \E i \in 1 .. Len(pres.slides), f \in Backgrounds :
        /\ ~call.made
        /\ pres.slides[i].background.Type = "nil"
        /\ SumLen(pres.slides, 1) < MaxEdits
        /\ pres' = [pres EXCEPT !.slides[i].background = f]
        /\ UNCHANGED <<opts, call, ret, canvasVars>>

\* The first call takes any of the options; a later call is made with the
\* options object the caller already holds.
SlideToImage ==
    \E slideIndex \in -1 .. MaxSlides, o \in (IF call.made THEN {opts} ELSE RenderOptionsSet) :
        /\ Renderable(pres, slideIndex, o)
        /\ call' = [made |-> TRUE, slideIndex |-> slideIndex, opts |-> o]
        /\ IF indexOutOfRange(slideIndex, Len(pres.slides))
           THEN /\ ret' = [nilImage |-> TRUE, img |-> NoImage, err |-> TRUE, log |-> <<>>]
                /\ opts' = o
           ELSE LET R == renderSlide(pres, slideIndex, optsInEffect(o))
                IN  /\ ret' = [nilImage |-> FALSE, img |-> R.img, err |-> FALSE,
                               log |-> R.log]
                    /\ opts' = IF o.isNil THEN o ELSE optsInEffect(o)
        /\ UNCHANGED <<pres, canvasVars>>

Next == AddShape \/ SetBackground \/ SlideToImage

Spec == Init /\ [][Next]_vars

-----------------------------------------------------------------------------
(* The canvas primitives driven directly: a canvas with arbitrary contents *)
(* receives a bounded sequence of primitive calls.                         *)

CanvasW == 2
CanvasH == 2
MaxOps == 2
CovDen == 4

\* Previous contents of a pixel: untouched, opaque, translucent.
PixColors == {RGBA(0, 0, 0, 0), RGBA(255, 255, 255, 255), RGBA(200, 100, 50, 128)}

\* Source colours: opaque, alpha 0 with colour bytes set, translucent.
FillColors == {RGBA(255, 0, 0, 255), RGBA(255, 0, 0, 0), RGBA(0, 0, 255, 128)}
SrcColors == FillColors \cup {RGBA(10, 200, 77, 1), RGBA(255, 255, 255, 254)}

\* Pixels inside the canvas and beyond each of its four edges.
BlendPoints == {<<0, 0>>, <<CanvasW - 1, CanvasH - 1>>, <<-1, 0>>, <<0, -1>>,
                <<CanvasW, 0>>, <<CanvasW - 1, CanvasH>>}

Coverages == {0, 2, CovDen}

\* Rectangles around, across an edge of and outside the canvas, and one pixel.
Rects == {Rect(-1, -1, CanvasW + 1, CanvasH + 1), Rect(1, 0, CanvasW + 1, 1),
          Rect(CanvasW, 0, CanvasW + 2, CanvasH), Rect(0, 0, 1, 1)}

InitCanvas ==
    /\ \E bg \in PixColors :
          img = [W |-> CanvasW, H |-> CanvasH,
                 Pix |-> [i \in 0 .. (CanvasW * CanvasH - 1) |->
                             IF i = 0 THEN RGBA(9, 8, 7, 200) ELSE bg]]
    /\ img0 = img
    /\ prev = img
    /\ ops = <<>>
    /\ pres = [layout |-> [CX |-> 4, CY |-> 3], slides |-> <<>>]
    /\ opts = NilOptions
    /\ call = NoCall
    /\ ret = NoReturn

Call(o, im) ==
    /\ Len(ops) < MaxOps
    /\ prev' = img
    /\ img' = im
    /\ ops' = Append(ops, o)
    /\ UNCHANGED <<img0, pres, opts, call, ret>>

BlendPixel ==
    \E p \in BlendPoints, c \in SrcColors :
        Call([name |-> "blendPixel", x |-> p[1], y |-> p[2], c |-> c],
             blendPixel(img, p[1], p[2], c))

BlendPixelF ==
    \E p \in {<<0, 0>>, <<CanvasW, CanvasH - 1>>}, c \in {RGBA(255, 0, 0, 255), RGBA(0, 0, 255, 128)},
       cov \in Coverages :
        Call([name |-> "blendPixelF", x |-> p[1], y |-> p[2], c |-> c, cov |-> cov],
             blendPixelF(img, p[1], p[2], c, cov, CovDen))

FillRectFast ==
    \E r \in Rects, c \in FillColors :
        Call([name |-> "fillRectFast", rect |-> r, c |-> c],
             fillRectFast(img, r, c))

FillRectBlend ==
    \E r \in Rects, c \in FillColors :
        Call([name |-> "fillRectBlend", rect |-> r, c |-> c],
             fillRectBlend(img, r, c))

NextCanvas == BlendPixel \/ BlendPixelF \/ FillRectFast \/ FillRectBlend

SpecCanvas == InitCanvas /\ [][NextCanvas]_vars

-----------------------------------------------------------------------------
(* The drawing helpers driven directly: one call of renderRotated,         *)
(* fillPolygon or fillGradientLinear on a canvas with given contents.      *)

DrawW == 6
DrawH == 6
MaxLeg == 4

DrawCanvas(bg) ==
    [W |-> DrawW, H |-> DrawH, Pix |-> [i \in 0 .. (DrawW * DrawH - 1) |-> bg]]

\* The canvas of a 4:3 slide at width 960, white, and a strip of 100 x 10.
ScreenCanvas ==
    fillRectFast(NewRGBAOn(960, 720, Observed(960, 720)), Rect(0, 0, 960, 720),
                 RGBA(255, 255, 255, 255))
StripCanvas == NewRGBAOn(100, 10, Observed(100, 10))

IsDrawCanvas(im) == im.W = DrawW /\ im.H = DrawH

\* Pixel boxes <<x, y, w, h>>: inside the canvas with w + h even and odd,
\* across its edge, and empty.
DrawBoxes == {<<1, 1, 2, 2>>, <<1, 1, 4, 2>>, <<2, 1, 2, 4>>, <<2, 1, 2, 3>>,
              <<1, 2, 3, 1>>, <<DrawW - 2, DrawH - 2, 3, 3>>, <<1, 1, 0, 2>>}

\* Boxes across the top left corner of the canvas and wholly outside it.
OutsideBoxes == {<<-1, -2, 3, 4>>, <<DrawW + 1, 1, 2, 3>>, <<1, -MaxLeg, 3, 2>>}

\* Boxes of ellipses: also one with edge pixels of partial coverage (7 x 6).
EllipseBoxes == DrawBoxes \cup OutsideBoxes \cup {<<-1, 0, 7, 6>>, <<0, 0, 1, 1>>}

\* Rectangles of gradients: inside, across an edge, empty, outside.
GradientRects == {Rect(0, 0, 4, 2), Rect(1, 1, 4, 5), Rect(2, 2, DrawW + 2, 4),
                  Rect(3, 3, 3, 5), Rect(-2, -1, 2, 2), Rect(DrawW, 1, DrawW + 2, 3),
                  Rect(1, DrawH + 1, 3, DrawH + 2)}

\* Scenario S3: the box of S2 at width 960.
S3Box == <<96, 96, 192, 144>>

MarkColor == RGBA(0, 0, 0, 255)

\* A draw callback whose content lies inside rect: the box filled with c
\* and, when mark is set, its top left pixel in MarkColor.
boxContent(im, rect, c, mark) ==
    IF mark THEN blendPixel(fillRectBlend(im, rect, c), rect.MinX, rect.MinY, MarkColor)
    ELSE fillRectBlend(im, rect, c)

\* A renderer on the canvas im at one pixel per unit.
canvasRenderer(im, fp) ==
    [img |-> im, scaleX |-> <<1, 1>>, scaleY |-> <<1, 1>>, fp |-> fp,
     base |-> <<0, 0>>, log |-> <<>>]

SampleOutcomes ==
    {[sx |-> a, sy |-> b, bounds |-> d, lerp |-> FALSE] : a, b, d \in BOOLEAN}


\* An axis-aligned right triangle with legs n and the right angle at the
\* top left (1), top right (2), bottom right (3) or bottom left (4).
RightTriangle(p, n, o) ==
    CASE o = 1 -> <<p, <<p[1] + n, p[2]>>, <<p[1], p[2] + n>>>>
      [] o = 2 -> <<p, <<p[1] + n, p[2]>>, <<p[1] + n, p[2] + n>>>>
      [] o = 3 -> <<<<p[1], p[2] + n>>, <<p[1] + n, p[2] + n>>, <<p[1] + n, p[2]>>>>
      [] o = 4 -> <<p, <<p[1], p[2] + n>>, <<p[1] + n, p[2] + n>>>>

InitDraw ==
    /\ img \in {DrawCanvas(bg) : bg \in PixColors} \cup {ScreenCanvas, StripCanvas}
    /\ img0 = img
    /\ prev = img
    /\ ops = <<>>
    /\ pres = [layout |-> [CX |-> 4, CY |-> 3], slides |-> <<>>]
    /\ opts = NilOptions
    /\ call = NoCall
    /\ ret = NoReturn

DrawCall(o, im) ==
    /\ ops = <<>>
    /\ prev' = img
    /\ img' = im
    /\ ops' = <<o>>
    /\ UNCHANGED <<img0, pres, opts, call, ret>>

\* r.renderRotated(x, y, w, h, rotation, flipH, flipV, drawFn) with drawFn
\* drawing boxContent at the origin of the offscreen.
RenderRotated ==
    /\ ops = <<>>
    /\ \E b \in (IF IsDrawCanvas(img) THEN DrawBoxes \cup OutsideBoxes
              ELSE IF img.W = 960 THEN {S3Box} ELSE {}),
       rotation \in {0, 90, 180, 270}, flipH \in BOOLEAN, flipV \in BOOLEAN,
       c \in FillColors, mark \in BOOLEAN, fp \in SampleOutcomes :
        /\ IsDrawCanvas(img) \/ (rotation \in {0, 90} /\ ~flipH /\ ~flipV /\ ~mark /\ c.A = 255)
        /\ rotation = 0 => fp = ExactFloat
        /\ DrawCall([name |-> "renderRotated", x |-> b[1], y |-> b[2], w |-> b[3],
                     h |-> b[4], rotation |-> rotation, flipH |-> flipH,
                     flipV |-> flipV, c |-> c, mark |-> mark, fp |-> fp,
                     tmpAcc |-> renderRotatedOffsets(canvasRenderer(img, fp), b[1], b[2],
                                    b[3], b[4], rotation, flipH, flipV)],
                    renderRotated(canvasRenderer(img, fp), b[1], b[2], b[3], b[4],
                        rotation, flipH, flipV,
                        Draw(tmpRenderer(canvasRenderer(img, fp), b[1], b[2], b[3], b[4]),
                             boxContent(NewRGBA(b[3], b[4]), Rect(0, 0, b[3], b[4]),
                                        c, mark))).img)

\* r.fillPolygon(pts, c)
FillPolygon ==
    /\ ops = <<>>
    /\ \E n \in 1 .. MaxLeg, o \in 1 .. 4, p \in {<<0, 0>>, <<1, 1>>},
       c \in {RGBA(255, 0, 0, 255), RGBA(0, 0, 255, 128)} :
        /\ IsDrawCanvas(img)
        /\ DrawCall([name |-> "fillPolygon", pts |-> RightTriangle(p, n, o), n |-> n,
                     c |-> c],
                    fillPolygon(img, RightTriangle(p, n, o), c))

\* r.fillGradientLinear(rect, fill)
FillGradientLinear ==
    /\ ops = <<>>
    /\ \E r \in (IF IsDrawCanvas(img) THEN GradientRects
              ELSE IF img.W = 100 THEN {Rect(0, 0, 100, 10)} ELSE {}),
       f \in {LinearFill(Red, Blue, 0), LinearFill(Red, Blue, 90),
              LinearFill(HalfGreen, ClearRed, 0)},
       low \in BOOLEAN :
        DrawCall([name |-> "fillGradientLinear", rect |-> r, fill |-> f, low |-> low,
                  acc |-> gradientOffsets(img, r)],
                 fillGradientLinear(img, r, f, low))

\* r.fillGradientPath(rect, fill)
FillGradientPath ==
    /\ ops = <<>>
    /\ IsDrawCanvas(img)
    /\ \E r \in GradientRects,
          f \in {LinearFill(Red, Blue, 0), LinearFill(HalfGreen, ClearRed, 0)},
          low \in BOOLEAN :
        DrawCall([name |-> "fillGradientPath", rect |-> r, fill |-> f, low |-> low,
                  acc |-> gradientOffsets(img, r)],
                 fillGradientPath(img, r, f, low))

\* r.fillEllipseAA(cx, cy, w, h, c)
FillEllipseAA ==
    /\ ops = <<>>
    /\ IsDrawCanvas(img)
    /\ \E b \in EllipseBoxes, c \in FillColors :
        DrawCall([name |-> "fillEllipseAA", x |-> b[1], y |-> b[2], w |-> b[3],
                  h |-> b[4], c |-> c,
                  acc |-> fillEllipseAAOffsets(img, b[1], b[2], b[3], b[4])],
                 fillEllipseAA(img, b[1], b[2], b[3], b[4], c))

\* Sources of 2 x 2, 2 x 1 and 1 x 1 pixels, opaque, translucent and clear,
\* as *image.RGBA and as a straight-alpha picture.
ScaleSources ==
    {[kind |-> k, W |-> d[1], H |-> d[2],
      Pix |-> [i \in 0 .. (d[1] * d[2] - 1) |-> IF i % 2 = 0 THEN a ELSE b]] :
        k \in {"RGBA", "NRGBA"}, d \in {<<2, 2>>, <<2, 1>>, <<1, 1>>},
        a \in PixColors, b \in {RGBA(255, 0, 0, 255), RGBA(10, 200, 77, 1)}}

\* scaleImageBilinear(src, dstW, dstH)
ScaleImageBilinear ==
    /\ ops = <<>>
    /\ IsDrawCanvas(img)
    /\ \E src \in ScaleSources, dstW \in 0 .. MaxLeg, dstH \in 1 .. 2 :
          DrawCall([name |-> "scaleImageBilinear", src |-> src, dstW |-> dstW,
                    dstH |-> dstH, out |-> scaleImageBilinear(src, dstW, dstH)], img)

\* End points of lines: inside the canvas and one pixel beyond each edge.
LineStarts == {<<-1, 0>>, <<0, 0>>, <<2, 3>>, <<DrawW - 1, DrawH>>}
LineEnds == (-1 .. DrawW) \X (-1 .. DrawH)

\* r.drawLine(x1, y1, x2, y2, c)
DrawLine ==
    /\ ops = <<>>
    /\ IsDrawCanvas(img)
    /\ \E p \in LineStarts, q \in LineEnds, c \in FillColors :
        DrawCall([name |-> "drawLine", x1 |-> p[1], y1 |-> p[2], x2 |-> q[1],
                  y2 |-> q[2], c |-> c,
                  line |-> drawLinePoints(p[1], p[2], q[1], q[2])],
                 drawLine(img, p[1], p[2], q[1], q[2], c))

\* Boxes <<x, y, w, h>> of shapes: squares and oblongs inside the canvas,
\* the whole canvas, a single pixel, and one across the bottom right corner.
ShapeBoxes == {<<0, 0, 3, 3>>, <<1, 1, 4, 4>>, <<1, 1, 5, 3>>, <<0, 0, DrawW, DrawH>>,
               <<2, 1, 2, 4>>, <<1, 2, 1, 1>>, <<DrawW - 2, DrawH - 2, 3, 3>>}

\* Colours of shapes: FillColors and a second translucent colour.
ShapeColors == FillColors \cup {RGBA(10, 200, 77, 1)}

\* r.fillPlus(x, y, w, h, c)
FillPlus ==
    /\ ops = <<>>
    /\ IsDrawCanvas(img)
    /\ \E b \in ShapeBoxes, c \in ShapeColors :
        DrawCall([name |-> "fillPlus", x |-> b[1], y |-> b[2], w |-> b[3], h |-> b[4],
                  c |-> c],
                 fillPlus(img, b[1], b[2], b[3], b[4], c))

\* r.drawRect(rect, c, width)
DrawRect ==
    /\ ops = <<>>
    /\ IsDrawCanvas(img)
    /\ \E b \in ShapeBoxes, c \in ShapeColors, width \in 0 .. 2 :
        DrawCall([name |-> "drawRect", x |-> b[1], y |-> b[2], w |-> b[3], h |-> b[4],
                  c |-> c, width |-> width],
                 drawRect(img, Rect(b[1], b[2], b[1] + b[3], b[2] + b[4]), c, width))

\* r.fillRoundedRect(x, y, w, h, radius, c)
FillRoundedRect ==
    /\ ops = <<>>
    /\ IsDrawCanvas(img)
    /\ \E b \in ShapeBoxes, c \in ShapeColors, radius \in 0 .. MaxLeg :
        DrawCall([name |-> "fillRoundedRect", x |-> b[1], y |-> b[2], w |-> b[3],
                  h |-> b[4], c |-> c, radius |-> radius],
                 fillRoundedRect(img, b[1], b[2], b[3], b[4], radius, c))

\* Shadows of distance 1: sharp and blurred, translucent and opaque.
Shadows ==
    {[Visible |-> TRUE, Direction |-> dir, Distance |-> 1, BlurRadius |-> blur,
      Color |-> Black, Alpha |-> alpha] :
        dir \in {0, 90, 180, 270}, blur \in 0 .. 2, alpha \in {50, 100}}

\* r.renderShadow(shape, rect), the shape's shadow being s, at scale 1.
RenderShadow ==
    /\ ops = <<>>
    /\ IsDrawCanvas(img)
    /\ \E b \in ShapeBoxes, s \in Shadows :
        DrawCall([name |-> "renderShadow", x |-> b[1], y |-> b[2], w |-> b[3],
                  h |-> b[4], shadow |-> s],
                 renderShadow(img, <<1, 1>>, s,
                              Rect(b[1], b[2], b[1] + b[3], b[2] + b[4])))

NextDraw ==
    \/ RenderRotated \/ FillPolygon \/ FillGradientLinear \/ ScaleImageBilinear
    \/ FillGradientPath \/ FillEllipseAA \/ DrawLine
    \/ FillPlus \/ DrawRect \/ FillRoundedRect \/ RenderShadow

SpecDraw == InitDraw /\ [][NextDraw]_vars

-----------------------------------------------------------------------------
(* The text helpers driven directly: one call of wrapRunLine, toRoman or   *)
(* formatBulletNumber; ops holds the call with its arguments and result.   *)

MaxTextLen == 4
MaxLineWidth == 4
NumSlack == 2

\* Texts of words and spaces, up to MaxTextLen characters.
Texts == UNION {[1 .. n -> {"a", " "}] : n \in 1 .. MaxTextLen}

\* Measured runs, the break run and a run whose face could not be loaded.
Runs == {textRun(t, "face") : t \in Texts} \cup {BreakRun, textRun(<<"a">>, "nil")}

RunLists == {<<>>} \cup {<<r>> : r \in Runs} \cup {<<r, q>> : r \in Runs, q \in Runs}

NumFormats == {"arabicPeriod", "arabicParenR", "romanUcPeriod", "romanLcPeriod",
               "alphaUcPeriod", "alphaLcPeriod", "alphaLcParenR"}

InitText ==
    /\ ops = <<>>
    /\ img = NoImage /\ img0 = NoImage /\ prev = NoImage
    /\ pres = [layout |-> [CX |-> 4, CY |-> 3], slides |-> <<>>]
    /\ opts = NilOptions
    /\ call = NoCall
    /\ ret = NoReturn

TextCall(o) ==
    /\ ops' = <<o>>
    /\ UNCHANGED <<img, img0, prev, pres, opts, call, ret>>

\* r.wrapRunLine(runs, maxWidth)
WrapRunLine ==
    /\ ops = <<>>
    /\ \E runs \in RunLists, maxWidth \in 0 .. MaxLineWidth :
          TextCall([name |-> "wrapRunLine", runs |-> runs, maxWidth |-> maxWidth,
                    lines |-> wrapRunLine(runs, maxWidth)])

\* toRoman(num)
ToRoman ==
    /\ ops = <<>>
    /\ \E num \in (-NumSlack) .. (3999 + NumSlack) :
          TextCall([name |-> "toRoman", num |-> num, out |-> toRoman(num)])

\* formatBulletNumber(num, format)
FormatBulletNumber ==
    /\ ops = <<>>
    /\ \E num \in ((-NumSlack) .. (26 + NumSlack)) \cup {3999, 3999 + NumSlack},
          format \in NumFormats :
          TextCall([name |-> "formatBulletNumber", num |-> num, format |-> format,
                    out |-> formatBulletNumber(num, format)])

\* Fonts of text runs, bullets and paragraphs of up to two elements.
RunFonts == {[Name |-> "Arial", Size |-> 24, Color |-> Red],
             [Name |-> "Calibri", Size |-> 10, Color |-> ARGB(255, 0, 0, 0)]}

Elements ==
    {[kind |-> "Break", fontNil |-> TRUE, font |-> NewFont],
     [kind |-> "TextRun", fontNil |-> TRUE, font |-> NewFont]}
    \cup {[kind |-> "TextRun", fontNil |-> FALSE, font |-> f] : f \in RunFonts}

Paragraphs ==
    {[elements |-> e] : e \in {<<>>} \cup {<<a>> : a \in Elements}
                                  \cup {<<a, b>> : a \in Elements, b \in Elements}}

\* Bullet.Color is a *Color: nil or a colour.
NilColor == [isNil |-> TRUE, c |-> ARGB(0, 0, 0, 0)]

Bullets ==
    {[isNil |-> TRUE, Type |-> "None", Style |-> <<>>, Font |-> "", Color |-> NilColor,
      StartAt |-> 1, NumFormat |-> "arabicPeriod"]}
    \cup {[isNil |-> FALSE, Type |-> t, Style |-> <<"*">>, Font |-> n, Color |-> c,
           StartAt |-> a, NumFormat |-> "romanUcPeriod"] :
            t \in {"None", "Char", "Numeric"}, n \in {"", "Symbol"},
            c \in {NilColor, SomeColor(Blue)}, a \in {0, 1 + NumSlack}}

\* r.buildBulletRun(b, para)
BuildBulletRun ==
    /\ ops = <<>>
    /\ \E b \in Bullets, para \in Paragraphs :
          TextCall([name |-> "buildBulletRun", b |-> b, para |-> para,
                    run |-> buildBulletRun(b, para)])

\* Paragraphs with their spacing: a wrapped line of two words, a large run
\* at line spacing 150%, an empty paragraph, two lines around a break at
\* line spacing 50% and centred, and a bulleted paragraph aligned right.
NilAlignment ==
    [isNil |-> TRUE, Horizontal |-> "left", MarginLeft |-> 0, MarginRight |-> 0,
     Indent |-> 0]
Alignment(hz, ml, mr, ind) ==
    [isNil |-> FALSE, Horizontal |-> hz, MarginLeft |-> ml, MarginRight |-> mr,
     Indent |-> ind]
TextElement(text, f) ==
    [kind |-> "TextRun", text |-> text, fontNil |-> FALSE, font |-> f]
BreakElement == [kind |-> "Break", text |-> <<>>, fontNil |-> TRUE, font |-> NewFont]
Paragraph(elements, bullet, alignment, ls, sb, sa) ==
    [elements |-> elements, bullet |-> bullet, alignment |-> alignment,
     lineSpacing |-> ls, spaceBefore |-> sb, spaceAfter |-> sa]

NilBullet ==
    [isNil |-> TRUE, Type |-> "None", Style |-> <<>>, Font |-> "", Color |-> NilColor,
     StartAt |-> 1, NumFormat |-> "arabicPeriod"]
StarBullet ==
    [isNil |-> FALSE, Type |-> "Char", Style |-> <<"*">>, Font |-> "",
     Color |-> NilColor, StartAt |-> 0, NumFormat |-> "romanUcPeriod"]

LaidParagraphs ==
    {Paragraph(<<TextElement(<<"a", " ", "a">>, NewFont)>>, NilBullet, NilAlignment,
               0, 2, 1),
     Paragraph(<<TextElement(<<"a", "a">>, [NewFont EXCEPT !.Size = 24])>>, NilBullet,
               NilAlignment, 15000, 0, 3),
     Paragraph(<<>>, NilBullet, NilAlignment, 0, 1, 0),
     Paragraph(<<TextElement(<<"a">>, NewFont), BreakElement,
                 TextElement(<<"a">>, [NewFont EXCEPT !.Size = 24])>>, NilBullet,
               Alignment("center", 0, 0, 0), 5000, 1, 1),
     Paragraph(<<TextElement(<<"a">>, NewFont)>>, StarBullet,
               Alignment("right", 0, 1, 1), 0, 0, 2)}

ParagraphLists ==
    {<<>>} \cup {<<a>> : a \in LaidParagraphs}
    \cup {<<a, b>> : a \in LaidParagraphs, b \in LaidParagraphs}

\* The renderer of the text helpers, at one pixel per unit.
TextRenderer == [scaleX |-> <<1, 1>>, scaleY |-> <<1, 1>>]

\* Heights of the text box: empty, shorter and taller than the blocks, with
\* an even and an odd slack.
BoxHeights == {0, 14, 40, 41}

\* r.drawParagraphs(paragraphs, x, y, w, h, anchor)
DrawParagraphs ==
    /\ ops = <<>>
    /\ \E paragraphs \in ParagraphLists, w \in {2, MaxLineWidth}, h \in BoxHeights,
          anchor \in {"top", "middle", "bottom"} :
          TextCall([name |-> "drawParagraphs", paragraphs |-> paragraphs, x |-> 1,
                    y |-> 2, w |-> w, h |-> h, anchor |-> anchor,
                    out |-> drawParagraphs(TextRenderer, paragraphs, 1, 2, w, h, anchor)])

NextText ==
    \/ WrapRunLine \/ ToRoman \/ FormatBulletNumber \/ BuildBulletRun
    \/ DrawParagraphs

SpecText == InitText /\ [][NextText]_vars

-----------------------------------------------------------------------------
(* The shape list of one slide driven by a caller: shapes are created or   *)
(* added and removed by index.  A shape is the pointer the slide holds:    *)
(* ptr tells the shapes apart, numbered in the order of their creation.    *)
(* ops holds the calls, each with the list before it and its result.       *)

MaxCalls == 4

\* (mutant) an index equal to the length is taken as in range.
removeShapeInclusive(shapes, index) ==
    IF index < 0 \/ index > Len(shapes) THEN [shapes |-> shapes, err |-> TRUE]
    ELSE [shapes |-> SubSeq(shapes, 1, index) \o SubSeq(shapes, index + 2, Len(shapes)),
          err |-> FALSE]

\* RemoveShape on the list shapes: the new list and whether an error is
\* returned.
\* if index < 0 || index >= len(s.shapes) { return error }
\* s.shapes = append(s.shapes[:index], s.shapes[index+1:]...)
removeShape(shapes, index) ==
    IF index < 0 \/ index >= Len(shapes) THEN [shapes |-> shapes, err |-> TRUE]
    ELSE [shapes |-> SubSeq(shapes, 1, index) \o SubSeq(shapes, index + 2, Len(shapes)),
          err |-> FALSE]

InitSlide ==
    /\ pres = [layout |-> [CX |-> 4, CY |-> 3], slides |-> <<newSlide>>]
    /\ ops = <<>>
    /\ img = NoImage /\ img0 = NoImage /\ prev = NoImage
    /\ opts = NilOptions
    /\ call = NoCall
    /\ ret = NoReturn

\* The shapes created so far.
Created == Cardinality({k \in 1 .. Len(ops) : ops[k].name # "RemoveShape"})

SlideCall(o, shapes) ==
    /\ ops' = Append(ops, [o EXCEPT !.before = pres.slides[1].shapes])
    /\ pres' = [pres EXCEPT !.slides[1].shapes = shapes]
    /\ UNCHANGED <<img, img0, prev, opts, call, ret>>

\* s.CreateRichTextShape(), s.CreateDrawingShape(): a new shape is appended.
CreateShape ==
    /\ Len(ops) < MaxCalls
    /\ \E kind \in {"RichText", "Drawing"} :
          SlideCall([name |-> "Create" \o kind \o "Shape", index |-> 0, err |-> FALSE,
                     before |-> <<>>],
                    Append(pres.slides[1].shapes, [kind |-> kind, ptr |-> Created + 1]))

\* s.AddShape(shape) with a shape made by the caller.
AddShapeToSlide ==
    /\ Len(ops) < MaxCalls
    /\ SlideCall([name |-> "AddShape", index |-> 0, err |-> FALSE, before |-> <<>>],
                 Append(pres.slides[1].shapes, [kind |-> "AutoShape", ptr |-> Created + 1]))

\* s.RemoveShape(index)
RemoveShape ==
    /\ Len(ops) < MaxCalls
    /\ \E index \in -1 .. MaxCalls :
          SlideCall([name |-> "RemoveShape", index |-> index,
                     err |-> removeShape(pres.slides[1].shapes, index).err,
                     before |-> <<>>],
                    removeShape(pres.slides[1].shapes, index).shapes)

NextSlide == CreateShape \/ AddShapeToSlide \/ RemoveShape

SpecSlide == InitSlide /\ [][NextSlide]_vars

-----------------------------------------------------------------------------
(* Charts.  A series is [Categories, Values, FillColor]: Categories a        *)
(* sequence of names, Values the map from names to values (whole numbers     *)
(* here), FillColor nil or a colour.                                         *)

defaultChartPalette ==
    <<RGBA(79, 129, 189, 255), RGBA(192, 80, 77, 255), RGBA(155, 187, 89, 255),
      RGBA(128, 100, 162, 255), RGBA(75, 172, 198, 255), RGBA(247, 150, 70, 255),
      RGBA(119, 44, 42, 255), RGBA(77, 93, 58, 255)>>

\* s.Values[cat]: the zero value for a name the map does not hold.
seriesValue(s, cat) == IF cat \in DOMAIN s.Values THEN s.Values[cat] ELSE 0

\* getSeriesColor(s, idx, palette), idx counted from 0
getSeriesColor(s, idx, palette) ==
    IF ~s.FillColor.isNil THEN argbToRGBA(s.FillColor.c)
    ELSE palette[(idx % Len(palette)) + 1]

\* minVal and maxVal of renderBarChart: the least and the greatest value of
\* every series under its own categories, then min > 0 forced to 0 and
\* max <= min forced to min + 1.
barValueRange(series) ==
    LET vals == UNION {{seriesValue(series[k], series[k].Categories[j]) :
                           j \in 1 .. Len(series[k].Categories)} :
                          k \in 1 .. Len(series)}
        lo == IF vals = {} THEN 0 ELSE CHOOSE v \in vals : \A u \in vals : v <= u
        hi == IF vals = {} THEN 0 ELSE CHOOSE v \in vals : \A u \in vals : v >= u
        minVal == IF lo > 0 THEN 0 ELSE lo
    IN  [minVal |-> minVal, maxVal |-> IF hi <= minVal THEN minVal + 1 ELSE hi]

\* The bar of category ci and series si (both counted from 0): its value,
\* its height int(float64(ph) * (v - minVal) / valRange) and its rectangle.
barOf(series, ci, si, px, py, pw, ph) ==
    LET rng == barValueRange(series)
        cats == series[1].Categories
        catW == TruncDiv(pw, Len(cats))
        barW == IF TruncDiv(catW, Len(series) + 1) < 1 THEN 1
                ELSE TruncDiv(catW, Len(series) + 1)
        v == seriesValue(series[si + 1], cats[ci + 1])
        barH == TruncDiv(ph * (v - rng.minVal), rng.maxVal - rng.minVal)
        bx == px + ci * catW + (si + 1) * barW - TruncDiv(barW, 2)
    IN  [ci |-> ci, si |-> si, v |-> v, barH |-> barH,
         rect |-> Rect(bx, py + ph - barH, bx + barW - 1, py + ph)]

\* The bars in the order they are drawn: for ci { for si { ... } }, from
\* the k-th on (k counted from 0).
bars(series, px, py, pw, ph) ==
    [k \in 1 .. (Len(series[1].Categories) * Len(series)) |->
        barOf(series, (k - 1) \div Len(series), (k - 1) % Len(series), px, py, pw, ph)]

\* What the calls r.fillRectBlend(bs[k].rect, sc) from the k-th bar on leave
\* at the in-bounds pixel (x, y) holding d.
RECURSIVE fillBarsAt(_, _, _, _, _, _)
fillBarsAt(d, series, bs, k, x, y) ==
    IF k > Len(bs) THEN d
    ELSE fillBarsAt(IF InRect(bs[k].rect, x, y)
                    THEN BlendPixelValue(getSeriesColor(series[bs[k].si + 1], bs[k].si,
                                                        defaultChartPalette), d)
                    ELSE d,
                    series, bs, k + 1, x, y)

fillBars(im, series, bs) ==
    [im EXCEPT !.Pix =
        [i \in DOMAIN im.Pix |->
            fillBarsAt(im.Pix[i], series, bs, 1, PixX(im, i), PixY(im, i))]]

\* renderBarChart(c, px, py, pw, ph), c.Series being series.
renderBarChart(im, series, px, py, pw, ph) ==
    IF Len(series) = 0 THEN im
    ELSE LET axes == drawLine(drawLine(im, px, py + ph, px + pw, py + ph,
                                       RGBA(128, 128, 128, 255)),
                              px, py, px, py + ph, RGBA(128, 128, 128, 255))
         IN  IF Len(series[1].Categories) = 0 THEN axes
             ELSE fillBars(axes, series, bars(series, px, py, pw, ph))

\* The place of an angle among the eight directions, in the order of the
\* angles normalised to [0, 2*pi): 0, 2, 4 and 6 are the angles 0, pi/2, pi
\* and 3*pi/2 (the axes), the odd numbers the open quadrants between them.
\* math.Atan2(dy, dx) of whole numbers; Atan2(0, 0) is 0.
atan2Place(dy, dx) ==
    IF dy = 0 THEN (IF dx >= 0 THEN 0 ELSE 4)
    ELSE IF dy > 0 THEN (IF dx > 0 THEN 1 ELSE IF dx = 0 THEN 2 ELSE 3)
    ELSE (IF dx < 0 THEN 5 ELSE IF dx = 0 THEN 6 ELSE 7)

\* The place of the angle -pi/2 + q*pi/2 (q quarter turns from the start of
\* the first slice), normalised: these float64 sums are exact.
quarterPlace(q) == (6 + 2 * q) % 8

\* angleInSweep(angle, start, end) on places.
angleInSweep(a, start, end) ==
    IF start <= end THEN a >= start /\ a <= end
    ELSE a >= start \/ a <= end

\* fillPieSlice(cx, cy, radius, startAngle, endAngle, c): the rows dy in
\* [-radius, radius], the columns |dx| <= int(sqrt(r2 - dy2)); every pixel
\* is visited once.
fillPieSlice(im, cx, cy, radius, start, end, c) ==
    [im EXCEPT !.Pix =
        [i \in DOMAIN im.Pix |->
            LET dx == PixX(im, i) - cx
                dy == PixY(im, i) - cy
            IN  IF /\ dy >= -radius /\ dy <= radius
                   /\ dx * dx <= radius * radius - dy * dy
                   /\ angleInSweep(atan2Place(dy, dx), start, end)
                THEN BlendPixelValue(c, im.Pix[i])
                ELSE im.Pix[i]]]

\* total: the sum of the positive values of the series.
RECURSIVE pieTotal(_, _)
pieTotal(s, i) ==
    IF i > Len(s.Categories) THEN 0
    ELSE (IF seriesValue(s, s.Categories[i]) > 0 THEN seriesValue(s, s.Categories[i])
          ELSE 0) + pieTotal(s, i + 1)

\* Every slice of the series ends on a quarter turn: sweep = 2*pi*v/total
\* is a multiple of pi/2.
QuarterSlices(s) ==
    \A i \in 1 .. Len(s.Categories) :
        seriesValue(s, s.Categories[i]) > 0 =>
            (4 * seriesValue(s, s.Categories[i])) % pieTotal(s, 1) = 0

\* The slice loop of renderPieChart from category i on (counted from 1),
\* startQ being startAngle in quarter turns from -pi/2.
RECURSIVE pieSlices(_, _, _, _, _, _, _)
pieSlices(im, s, i, startQ, cx, cy, radius) ==
    IF i > Len(s.Categories) THEN im
    ELSE LET v == seriesValue(s, s.Categories[i])
             endQ == startQ + (4 * v) \div pieTotal(s, 1)
         IN  IF v <= 0 THEN pieSlices(im, s, i + 1, startQ, cx, cy, radius)
             ELSE pieSlices(fillPieSlice(im, cx, cy, radius, quarterPlace(startQ),
                                         quarterPlace(endQ),
                                         defaultChartPalette[((i - 1) % 8) + 1]),
                            s, i + 1, endQ, cx, cy, radius)

\* renderPieChart(series, px, py, pw, ph) for a first series with QuarterSlices.
renderPieChart(im, series, px, py, pw, ph) ==
    IF Len(series) = 0 \/ Len(series[1].Categories) = 0 THEN im
    ELSE IF pieTotal(series[1], 1) = 0 THEN im
    ELSE IF TruncDiv(Min2(pw, ph), 2) < 5 THEN im
    ELSE pieSlices(im, series[1], 1, 0, px + TruncDiv(pw, 2), py + TruncDiv(ph, 2),
                   TruncDiv(Min2(pw, ph), 2))

-----------------------------------------------------------------------------
(* The chart renderers driven directly: one call of renderBarChart or      *)
(* renderPieChart on a white canvas.                                        *)

ChartW == 12
ChartH == 12

ChartCanvas ==
    [W |-> ChartW, H |-> ChartH,
     Pix |-> [i \in 0 .. (ChartW * ChartH - 1) |-> RGBA(255, 255, 255, 255)]]

\* Series over the categories A and B with negative, zero and positive
\* values, with and without a fill colour of their own.
ChartValues == {-5, -1, 0, 1, 2, 3}

CategoryLists == {<<>>, <<"A">>, <<"B">>, <<"A", "B">>}

ChartSeries ==
    UNION {{[Categories |-> cats, Values |-> vals, FillColor |-> fc] :
               vals \in [{cats[j] : j \in 1 .. Len(cats)} -> ChartValues],
               fc \in {NilColor}} : cats \in CategoryLists}
    \cup {[Categories |-> <<"A">>, Values |-> [n \in {"A"} |-> 2],
           FillColor |-> SomeColor(Blue)]}

SeriesLists ==
    {<<>>} \cup {<<a>> : a \in ChartSeries}
    \cup {<<a, b>> : a \in ChartSeries, b \in {t \in ChartSeries : t.FillColor.isNil}}

\* Plot areas <<px, py, pw, ph>>: inside the canvas, narrower than the
\* categories need, and too small for a pie.
PlotAreas == {<<1, 2, 10, 8>>, <<1, 1, ChartW - 2, ChartH - 2>>, <<2, 2, 1, 4>>}

InitChart ==
    /\ img = ChartCanvas
    /\ img0 = img
    /\ prev = img
    /\ ops = <<>>
    /\ pres = [layout |-> [CX |-> 4, CY |-> 3], slides |-> <<>>]
    /\ opts = NilOptions
    /\ call = NoCall
    /\ ret = NoReturn

ChartCall(o, im) ==
    /\ prev' = img
    /\ img' = im
    /\ ops' = <<o>>
    /\ UNCHANGED <<img0, pres, opts, call, ret>>

\* r.renderBarChart(c, px, py, pw, ph)
RenderBarChart ==
    /\ ops = <<>>
    /\ \E series \in SeriesLists, a \in PlotAreas :
        ChartCall([name |-> "renderBarChart", series |-> series, px |-> a[1],
                   py |-> a[2], pw |-> a[3], ph |-> a[4],
                   range |-> IF series = <<>> THEN [minVal |-> 0, maxVal |-> 1]
                             ELSE barValueRange(series),
                   bars |-> IF series = <<>> \/ series[1].Categories = <<>> THEN <<>>
                            ELSE bars(series, a[1], a[2], a[3], a[4])],
                  renderBarChart(img, series, a[1], a[2], a[3], a[4]))

\* r.renderPieChart(series, px, py, pw, ph)
RenderPieChart ==
    /\ ops = <<>>
    /\ \E series \in {l \in SeriesLists : Len(l) <= 1}, a \in PlotAreas :
        /\ series # <<>> /\ pieTotal(series[1], 1) > 0 => QuarterSlices(series[1])
        /\ ChartCall([name |-> "renderPieChart", series |-> series, px |-> a[1],
                      py |-> a[2], pw |-> a[3], ph |-> a[4]],
                     renderPieChart(img, series, a[1], a[2], a[3], a[4]))

NextChart == RenderBarChart \/ RenderPieChart

SpecChart == InitChart /\ [][NextChart]_vars

-----------------------------------------------------------------------------
(* Properties of SlideToImage (checked under Spec) *)

InRangeCall == call.made /\ call.slideIndex >= 0 /\ call.slideIndex < Len(pres.slides)

CalledSlide == pres.slides[call.slideIndex + 1]

\* The width in effect for the last call: the requested one, or 960.
CalledWidth ==
    IF call.opts.isNil THEN 960
    ELSE IF call.opts.Width <= 0 THEN 960 ELSE call.opts.Width

PixelAt(x, y) == ret.img.Pix[y * ret.img.W + x]

White == RGBA(255, 255, 255, 255)

\* C1: SlideToImage returns an error and no image exactly when slideIndex < 0
\* or slideIndex >= the number of slides; for an index in range it returns an
\* image and a nil error whatever shapes the slide holds.
C1_ErrorIffOutOfRange ==
    call.made =>
        /\ (ret.err /\ ret.nilImage)
               <=> (call.slideIndex < 0 \/ call.slideIndex >= Len(pres.slides))
        /\ InRangeCall => (~ret.err /\ ~ret.nilImage)
        /\ ret.err <=> ret.nilImage

\* The last slide of two rendered without error although it holds a picture
\* that fails to decode.
C1_Witness ==
    /\ InRangeCall /\ call.slideIndex = 1 /\ Len(pres.slides) = 2
    /\ \E k \in 1 .. Len(CalledSlide.shapes) :
          CalledSlide.shapes[k].kind = "Drawing" /\ CalledSlide.shapes[k].data = "bad"
    /\ ~ret.err /\ ~ret.nilImage /\ ret.img.W = 4

StageRank(stage) ==
    CASE stage = "shadow" -> 1 [] stage = "fill" -> 2 [] stage = "border" -> 3
      [] stage = "content" -> 4 [] OTHER -> 0

OpaqueBox(s) == Plain(s) /\ s.fill.Type = "solid" /\ GetAlpha(s.fill.Color) = 255

\* The rectangle that shape k of the called slide was filled in.
FillRect(k) ==
    ret.log[CHOOSE j \in 1 .. Len(ret.log) :
                ret.log[j].path = <<k>> /\ ret.log[j].stage = "fill"].rect

\* C3: the background is drawn first, then the shapes strictly in slide order
\* (all steps of shape i before any step of shape i+1), and inside a
\* RichText/Placeholder/AutoShape the steps come in the order shadow, fill,
\* border, content.  Hence a pixel inside an opaque borderless box that no
\* later box covers and no later shadow can reach has that box's fill colour,
\* whatever earlier shapes and the box's own shadow drew there.
C3_DrawOrder ==
    InRangeCall =>
        LET log == ret.log
            shapes == CalledSlide.shapes
        IN  /\ log[1].stage = "background"
            /\ \A j \in 2 .. Len(log) : log[j].stage # "background" /\ log[j].path # <<>>
            /\ \A j, k \in 2 .. Len(log) :
                  j < k => /\ log[j].path[1] <= log[k].path[1]
                           /\ (log[j].path = log[k].path
                               /\ log[j].kind \in {"RichText", "Placeholder", "AutoShape"})
                                  => StageRank(log[j].stage) < StageRank(log[k].stage)
            /\ \A i \in 1 .. Len(shapes) :
                  (OpaqueBox(shapes[i])
                   /\ \A j \in (i + 1) .. Len(shapes) :
                         Plain(shapes[j]) /\ ~shapes[j].shadow.Visible)
                  => \A q \in DOMAIN ret.img.Pix :
                        (InRect(FillRect(i), q % ret.img.W, q \div ret.img.W)
                         /\ \A j \in (i + 1) .. Len(shapes) :
                               ~InRect(FillRect(j), q % ret.img.W, q \div ret.img.W))
                        => ret.img.Pix[q] = argbToRGBA(shapes[i].fill.Color)

\* A red box, then a blue box with a shadow cast to the right over both boxes:
\* the overlap and the part of the blue box under its own shadow are blue, the
\* rest of the red box is red.
C3_Witness ==
    /\ InRangeCall /\ CalledWidth = 4 /\ call.opts.BackgroundColor.isNil
    /\ CalledSlide.shapes = << Box("RichText", 0, 0, 2, 2, Red),
                               Shadowed(Box("RichText", 1, 1, 2, 2, Blue), 0, 0) >>
    /\ PixelAt(1, 1) = RGBA(0, 0, 255, 255)
    /\ PixelAt(2, 1) = RGBA(0, 0, 255, 255)
    /\ PixelAt(0, 0) = RGBA(255, 0, 0, 255)
    /\ PixelAt(3, 1) \notin {White, RGBA(0, 0, 255, 255)}

\* The colour the background is filled with on the last call.
BackgroundInEffect ==
    IF ~call.opts.isNil /\ ~call.opts.BackgroundColor.isNil THEN call.opts.BackgroundColor.c
    ELSE IF CalledSlide.background.Type = "solid"
         THEN RGBA(GetRed(CalledSlide.background.Color), GetGreen(CalledSlide.background.Color),
                   GetBlue(CalledSlide.background.Color), GetAlpha(CalledSlide.background.Color))
    ELSE White

\* C7: a rectangle fill with a colour of alpha 0 leaves the pixel buffer
\* unchanged whatever the colour's R, G, B are, also where the renderer fills
\* through fillRectFast: after the background fill of a slide without shapes
\* with an alpha-0 colour, the fresh canvas is still all zero bytes.
C7_AlphaZeroFillKeepsBuffer ==
    (InRangeCall /\ CalledSlide.shapes = <<>> /\ BackgroundInEffect.A = 0)
    => \A q \in DOMAIN ret.img.Pix : ret.img.Pix[q] = RGBA(0, 0, 0, 0)

S2Rendered ==
    /\ InRangeCall /\ CalledWidth = 960
    /\ pres.layout = ScreenLayout
    /\ CalledSlide.shapes = <<S2Shape>>
    /\ BackgroundInEffect = White

\* C8 (as stated): in scenario S2 pixel (96,96) is red, (95,95) white,
\* (288,240) red and (289,240) white.
C8_S2Pixels ==
    S2Rendered =>
        /\ PixelAt(96, 96) = RGBA(255, 0, 0, 255)
        /\ PixelAt(95, 95) = White
        /\ PixelAt(288, 240) = RGBA(255, 0, 0, 255)
        /\ PixelAt(289, 240) = White

\* C8 (amended): in scenario S2 the box covers the half-open pixel rectangle
\* [96,288) x [96,240): pixel (96,96) is red, (95,95) white, (287,239) red, and
\* (288,240) and (289,240) are white.
C8_S2PixelsHalfOpen ==
    S2Rendered =>
        /\ PixelAt(96, 96) = RGBA(255, 0, 0, 255)
        /\ PixelAt(95, 95) = White
        /\ PixelAt(287, 239) = RGBA(255, 0, 0, 255)
        /\ PixelAt(288, 240) = White
        /\ PixelAt(289, 240) = White

\* Scenario S2 rendered with explicit width 960 over a white slide background.
C8_Witness ==
    /\ S2Rendered
    /\ ~call.opts.isNil /\ call.opts.Width = 960
    /\ CalledSlide.background = SolidFill(ARGB(255, 255, 255, 255))
    /\ ret.img.W = 960 /\ ret.img.H = 720
    /\ PixelAt(287, 239) # PixelAt(288, 240)

\* C9: every drawing step of a shape whose envelope has rotation # 0, flip_h
\* or flip_v is made through the rotated-compositing path (into a fresh
\* offscreen that is then flipped/rotated onto the target), never directly.
C9_TransformedShapesUseRotatedPath ==
    InRangeCall =>
        \A j \in 1 .. Len(ret.log) : ret.log[j].transformed => ret.log[j].via = "rotated"

\* The renderer's scale on the last call.
CalledRenderer == newRenderer(pres, optsInEffect(call.opts))

\* C10: before any rotation or flip is applied, the pixel origin of a child of
\* a group is the group's pixel origin plus the child's own offset in pixels,
\* whether the group is untransformed or carries a rotation/flip.
C10_GroupChildOrigin ==
    InRangeCall =>
        \A j \in 1 .. Len(ret.log) :
            Len(ret.log[j].path) = 2 =>
                LET e == ret.log[j]
                    g == CalledSlide.shapes[e.path[1]]
                    c == g.shapes[e.path[2]]
                IN  /\ e.base[1] + e.rect.MinX
                          = emuToPixelX(CalledRenderer, g.offsetX)
                            + emuToPixelX(CalledRenderer, c.offsetX)
                    /\ e.base[2] + e.rect.MinY
                          = emuToPixelY(CalledRenderer, g.offsetY)
                            + emuToPixelY(CalledRenderer, c.offsetY)

BlankSlideCall == InRangeCall /\ CalledSlide.shapes = <<>>

GradientInEffect ==
    (call.opts.isNil \/ call.opts.BackgroundColor.isNil)
    /\ CalledSlide.background.Type = "linear"

GradientColumn(f, x, w) ==
    RGBA((GetRed(f.Color) * (w - x) + GetRed(f.EndColor) * x) \div w,
         (GetGreen(f.Color) * (w - x) + GetGreen(f.EndColor) * x) \div w,
         (GetBlue(f.Color) * (w - x) + GetBlue(f.EndColor) * x) \div w,
         (GetAlpha(f.Color) * (w - x) + GetAlpha(f.EndColor) * x) \div w)

C13_InputsNotMutated ==
    [][call'.made => (pres' = pres /\ opts' = call'.opts)]_vars

UndecodableAt(k) ==
    /\ k \in 1 .. Len(CalledSlide.shapes)
    /\ CalledSlide.shapes[k].kind = "Drawing"
    /\ CalledSlide.shapes[k].data = "bad"

Grey == RGBA(200, 200, 200, 255)

\* The image with the one-pixel outline of the box (x, y, w, h) in grey.
Outlined(im, x, y, w, h) ==
    [im EXCEPT !.Pix =
        [i \in DOMAIN im.Pix |->
            IF /\ PixX(im, i) >= x /\ PixX(im, i) < x + w
               /\ PixY(im, i) >= y /\ PixY(im, i) < y + h
               /\ \/ PixX(im, i) = x \/ PixX(im, i) = x + w - 1
                  \/ PixY(im, i) = y \/ PixY(im, i) = y + h - 1
            THEN Grey ELSE im.Pix[i]]]

\* The slide's shapes rendered with shape k replaced by the grey outline of
\* its pixel box (one pixel per unit).
WithPlaceholderAt(k) ==
    LET before == renderShapes(fillBackground(CalledRenderer, optsInEffect(call.opts),
                                              CalledSlide),
                               SubSeq(CalledSlide.shapes, 1, k - 1), <<>>, 1)
        s == CalledSlide.shapes[k]
        placed == [before EXCEPT
                      !.img = Outlined(@, s.offsetX, s.offsetY, s.width, s.height)]
    IN  renderShapes(placed, CalledSlide.shapes, <<>>, k + 1).img

\* C15: a Drawing whose bytes cannot be decoded is recovered locally:
\* SlideToImage returns an image and a nil error, the shape leaves the
\* one-pixel outline of its pixel box in grey (200,200,200) and nothing
\* else, and the shapes after it are rendered over that as usual.
C15_UndecodableDrawingPlaceholder ==
    \A k \in 1 .. MaxEdits :
        (InRangeCall /\ UndecodableAt(k) /\ CalledWidth = pres.layout.CX)
        => /\ ~ret.err /\ ~ret.nilImage
           /\ ret.img = WithPlaceholderAt(k)

\* An undecodable 3 x 3 picture followed by a red 2 x 2 box: the outline is
\* grey, the box is drawn over it, the rest is the white background.
C15_Witness ==
    /\ InRangeCall /\ UndecodableAt(1) /\ Len(CalledSlide.shapes) = 2
    /\ CalledSlide.shapes[1].width = 3 /\ CalledSlide.shapes[1].rotation = 0
    /\ ~ret.err /\ ~ret.nilImage
    /\ PixelAt(2, 0) = Grey /\ PixelAt(2, 2) = Grey /\ PixelAt(0, 2) = Grey
    /\ PixelAt(1, 1) = RGBA(255, 0, 0, 255) /\ PixelAt(0, 0) = RGBA(255, 0, 0, 255)
    /\ PixelAt(3, 1) = White

-----------------------------------------------------------------------------
(* Properties of the canvas primitives (checked under SpecCanvas) *)

LastOp == ops[Len(ops)]

IsBlendCall(o) == o.name \in {"blendPixel", "blendPixelF"}
IsFillCall(o) == o.name \in {"fillRectFast", "fillRectBlend"}

OutsideCanvas(x, y) == x < 0 \/ x >= CanvasW \/ y < 0 \/ y >= CanvasH

\* C4: a blendPixel or blendPixelF call aimed at a pixel outside the canvas
\* leaves every element of the pixel buffer unchanged, whatever the colour and
\* the coverage; after a sequence of only such calls the buffer still holds
\* its initial contents.
C4_OutsideBlendKeepsBuffer ==
    /\ (ops # <<>> /\ IsBlendCall(LastOp) /\ OutsideCanvas(LastOp.x, LastOp.y))
           => img = prev
    /\ (\A k \in 1 .. Len(ops) :
            IsBlendCall(ops[k]) /\ OutsideCanvas(ops[k].x, ops[k].y))
           => img = img0

\* Two out-of-canvas calls in a row, one right of the last column of a row
\* that exists, with a colour that would be stored if the call were accepted.
C4_Witness ==
    /\ Len(ops) = 2
    /\ \A k \in 1 .. 2 : IsBlendCall(ops[k]) /\ OutsideCanvas(ops[k].x, ops[k].y)
    /\ ops[1].name = "blendPixelF" /\ ops[1].cov = 2 /\ ops[1].c.A = 255
    /\ ops[2].name = "blendPixel" /\ ops[2].x = CanvasW /\ ops[2].y = 0
    /\ ops[2].c.A = 128

\* C5: blendPixel with 0 < a < 255 on a pixel of the canvas stores
\* floor((src*a + dst*(255-a))/255) in each colour channel and
\* dst_a + floor((255-dst_a)*a/255) in the alpha byte; the values stored are
\* these numbers themselves (all within 0..255, no 8-bit wrap-around), the
\* stored alpha is not below the previous one, and no other pixel changes.
C5_BlendFormula ==
    (ops # <<>> /\ LastOp.name = "blendPixel"
        /\ ~OutsideCanvas(LastOp.x, LastOp.y)
        /\ LastOp.c.A > 0 /\ LastOp.c.A < 255)
    => LET c == LastOp.c
           a == c.A
           off == LastOp.y * CanvasW + LastOp.x
           d == prev.Pix[off]
           n == img.Pix[off]
       IN  /\ n.R = (c.R * a + d.R * (255 - a)) \div 255
           /\ n.G = (c.G * a + d.G * (255 - a)) \div 255
           /\ n.B = (c.B * a + d.B * (255 - a)) \div 255
           /\ n.A = d.A + ((255 - d.A) * a) \div 255
           /\ \A v \in {n.R, n.G, n.B, n.A} : v \in 0 .. 255
           /\ n.A >= d.A
           /\ \A i \in DOMAIN img.Pix : i # off => img.Pix[i] = prev.Pix[i]

\* A translucent colour blended over a pixel that is already translucent.
C5_Witness ==
    /\ Len(ops) = 2
    /\ ops[1].name = "blendPixel" /\ ops[1].c.A = 128 /\ ops[1].x = 0 /\ ops[1].y = 0
    /\ ops[2].name = "blendPixel" /\ ops[2].c.A = 254 /\ ops[2].x = 0 /\ ops[2].y = 0
    /\ prev.Pix[0].A > 200 /\ prev.Pix[0].A < 255
    /\ img.Pix[0] # prev.Pix[0]

\* C6: a rectangle fill (fillRectFast or fillRectBlend) with alpha 255 leaves
\* every pixel of rect /\ canvas equal to (R,G,B,255) of the colour, whatever
\* it held before, and every other pixel unchanged, also when the rectangle
\* lies partly or wholly outside the canvas.
C6_OpaqueFillExact ==
    (ops # <<>> /\ IsFillCall(LastOp) /\ LastOp.c.A = 255)
    => \A i \in DOMAIN img.Pix :
          IF InRect(LastOp.rect, i % CanvasW, i \div CanvasW)
          THEN img.Pix[i] = RGBA(LastOp.c.R, LastOp.c.G, LastOp.c.B, 255)
          ELSE img.Pix[i] = prev.Pix[i]

\* An opaque fill of a rectangle that sticks out of the canvas, over pixels
\* that an earlier translucent fill had changed.
C6_Witness ==
    /\ Len(ops) = 2
    /\ ops[1].name = "fillRectBlend" /\ ops[1].c.A = 128
    /\ ops[1].rect = Rect(-1, -1, CanvasW + 1, CanvasH + 1)
    /\ ops[2].name = "fillRectBlend" /\ ops[2].c.A = 255
    /\ ops[2].rect = Rect(1, 0, CanvasW + 1, 1)
    /\ img.Pix[1] = RGBA(255, 0, 0, 255)
    /\ img.Pix[0] = prev.Pix[0] /\ prev.Pix[0] # img0.Pix[0]

\* blendPixel called once for each pixel of the rectangle that lies on the
\* canvas: each call changes its own pixel only.
BlendRect(im, rect, c) ==
    [im EXCEPT !.Pix =
        [i \in DOMAIN im.Pix |->
            IF InRect(rect, PixX(im, i), PixY(im, i))
            THEN blendPixel(im, PixX(im, i), PixY(im, i), c).Pix[i]
            ELSE im.Pix[i]]]

\* C16: fillRectBlend(R, c) changes the canvas as blendPixel called for each
\* pixel of R does, for every alpha; after two such fills with c1 and then c2
\* every pixel holds c2 blended over (c1 blended over the first contents)
\* where the rectangles cover it, and pixels outside them are unchanged.
C16_FillRectBlendIsBlendPixel ==
    /\ (ops # <<>> /\ LastOp.name = "fillRectBlend")
       => img = BlendRect(prev, LastOp.rect, LastOp.c)
    /\ (Len(ops) = 2 /\ ops[1].name = "fillRectBlend" /\ ops[2].name = "fillRectBlend")
       => img = BlendRect(BlendRect(img0, ops[1].rect, ops[1].c), ops[2].rect, ops[2].c)

\* Two translucent fills over the whole canvas, the second over the first.
C16_Witness ==
    /\ Len(ops) = 2 /\ ops[1].name = "fillRectBlend" /\ ops[2].name = "fillRectBlend"
    /\ ops[1].c.A = 128 /\ ops[2].c.A = 128
    /\ ops[1].rect = Rect(-1, -1, CanvasW + 1, CanvasH + 1) /\ ops[2].rect = ops[1].rect
    /\ img0.Pix[1] = RGBA(200, 100, 50, 128)
    /\ prev.Pix[1] = RGBA(99, 49, 152, 191)
    /\ img.Pix[1] = BlendOver(ops[2].c, prev.Pix[1])
    /\ img.Pix[1] # prev.Pix[1]

-----------------------------------------------------------------------------
(* Properties of the drawing helpers (checked under SpecDraw) *)

DrawOp == ops[1]

DrawBox == Rect(DrawOp.x, DrawOp.y, DrawOp.x + DrawOp.w, DrawOp.y + DrawOp.h)

UnrotatedCall ==
    /\ ops # <<>>
    /\ DrawOp.name = "renderRotated"
    /\ DrawOp.rotation = 0 /\ ~DrawOp.flipH /\ ~DrawOp.flipV

\* C11: renderRotated with rotation 0 and both flips false leaves exactly
\* the canvas bytes that running the same draw callback directly on the
\* canvas at (x, y) leaves, for every prior canvas content and every fill
\* colour, translucent ones included.
C11_UnrotatedEqualsDirect ==
    UnrotatedCall => img = boxContent(prev, DrawBox, DrawOp.c, DrawOp.mark)

-----------------------------------------------------------------------------
(* Properties of the text helpers (checked under SpecText) *)

TextOp == ops[1]

WrapCall == ops # <<>> /\ TextOp.name = "wrapRunLine"

\* maxWidth as wrapRunLine uses it.
WrapWidth == IF TextOp.maxWidth <= 0 THEN 1 ELSE TextOp.maxWidth

\* The text of a line: its runs' texts one after the other.
RECURSIVE LineText(_, _)
LineText(runs, k) == IF k > Len(runs) THEN <<>> ELSE runs[k].text \o LineText(runs, k + 1)

\* The line carries no more than one single word (with the white space
\* around it) and is wider than the line width.
OverlongWord(line) ==
    /\ Len(Fields(LineText(line.runs, 1))) <= 1
    /\ line.width > WrapWidth

\* C12: every line produced by wrapRunLine has total width <= maxWidth
\* unless it consists of one single word wider than maxWidth, and a run of
\* several words that does not fit in maxWidth is split at word boundaries
\* (no line carries it whole), also when it is the first run on its line.
C12_LinesFitOrSingleWord ==
    WrapCall =>
        /\ \A k \in 1 .. Len(TextOp.lines) :
              TextOp.lines[k].width <= WrapWidth \/ OverlongWord(TextOp.lines[k])
        /\ \A j \in 1 .. Len(TextOp.runs) :
              (/\ TextOp.runs[j].face # "nil"
               /\ Len(Fields(TextOp.runs[j].text)) > 1
               /\ TextOp.runs[j].width > WrapWidth)
              => \A k \in 1 .. Len(TextOp.lines) :
                    \A i \in 1 .. Len(TextOp.lines[k].runs) :
                        TextOp.lines[k].runs[i].text # TextOp.runs[j].text

QuarterTurnCall ==
    /\ ops # <<>> /\ DrawOp.name = "renderRotated"
    /\ DrawOp.rotation = 90 /\ DrawOp.c.A = 255 /\ DrawOp.w > 0 /\ DrawOp.h > 0

\* The box turned by 90 degrees about its centre (x + w/2, y + h/2) is the
\* block of h columns and w rows about the same centre; in doubled
\* coordinates it spans [2x + w - h, 2x + w + h) x [2y + h - w, 2y + h + w)
\* and the centre of pixel (px, py) is (2px + 1, 2py + 1).  A pixel is well
\* inside (well outside) the block when its centre is more than one pixel
\* inside (outside) each (some) edge.
WellInsideTurned(px, py) ==
    /\ 2 * px + 1 - 2 >= 2 * DrawOp.x + DrawOp.w - DrawOp.h
    /\ 2 * px + 1 + 2 <= 2 * DrawOp.x + DrawOp.w + DrawOp.h
    /\ 2 * py + 1 - 2 >= 2 * DrawOp.y + DrawOp.h - DrawOp.w
    /\ 2 * py + 1 + 2 <= 2 * DrawOp.y + DrawOp.h + DrawOp.w

WellOutsideTurned(px, py) ==
    \/ 2 * px + 1 + 2 <= 2 * DrawOp.x + DrawOp.w - DrawOp.h
    \/ 2 * px + 1 - 2 >= 2 * DrawOp.x + DrawOp.w + DrawOp.h
    \/ 2 * py + 1 + 2 <= 2 * DrawOp.y + DrawOp.h - DrawOp.w
    \/ 2 * py + 1 - 2 >= 2 * DrawOp.y + DrawOp.h + DrawOp.w

\* C19: an opaque solid w x h box rendered with rotation 90 colours the
\* pixels of the box turned by 90 degrees about its centre, the block of
\* h x w pixels about the same centre, up to the pixels next to the block's
\* boundary: every pixel well inside the block takes the box's colour and
\* every pixel well outside keeps its contents, whatever the float64
\* roundings of the sample coordinates.
C19_QuarterTurnAboutCentre ==
    QuarterTurnCall =>
        \A i \in DOMAIN img.Pix :
            /\ WellInsideTurned(PixX(img, i), PixY(img, i))
               => img.Pix[i] \in {RGBA(DrawOp.c.R, DrawOp.c.G, DrawOp.c.B, 255), MarkColor}
            /\ WellOutsideTurned(PixX(img, i), PixY(img, i))
               => img.Pix[i] = prev.Pix[i]

\* Scenario S3: the 192 x 144 box at (96, 96), centre (192, 168), is after
\* the turn the block of 144 x 192 pixels about (192, 168): red at the
\* centre, near two of its corners and above the box's former top edge,
\* white left of, right of and below it, also where the box lay before.
C19_Witness ==
    /\ QuarterTurnCall /\ img.W = 960
    /\ <<DrawOp.x, DrawOp.y, DrawOp.w, DrawOp.h>> = S3Box
    /\ DrawOp.fp.sx /\ DrawOp.fp.sy /\ DrawOp.fp.bounds
    /\ \A q \in {<<192, 168>>, <<121, 73>>, <<262, 262>>, <<192, 80>>} :
          /\ WellInsideTurned(q[1], q[2])
          /\ img.Pix[q[2] * 960 + q[1]] = RGBA(255, 0, 0, 255)
    /\ \A q \in {<<100, 100>>, <<118, 70>>, <<266, 168>>, <<192, 266>>} :
          /\ WellOutsideTurned(q[1], q[2])
          /\ img.Pix[q[2] * 960 + q[1]] = RGBA(255, 255, 255, 255)

PolygonCall == ops # <<>> /\ DrawOp.name = "fillPolygon"

\* The pixels the call has changed.
Coloured == {i \in DOMAIN img.Pix : img.Pix[i] # prev.Pix[i]}

\* C17: fillPolygon on an axis-aligned right triangle with integer legs n, in
\* each of the four orientations, with an opaque colour on a canvas that
\* contains it, colours n*(n+1)/2 pixels (exactly, hence within the allowed
\* tolerance of one scanline row), each with the fill colour.
C17_TrianglePixelCount ==
    (PolygonCall /\ DrawOp.c.A = 255)
    => /\ Cardinality(Coloured) = (DrawOp.n * (DrawOp.n + 1)) \div 2
       /\ \A i \in Coloured : img.Pix[i] = DrawOp.c

\* The triangle of legs MaxLeg with the right angle at its lower right.
C17_Witness ==
    /\ PolygonCall /\ DrawOp.c.A = 255 /\ DrawOp.n = MaxLeg
    /\ DrawOp.pts = RightTriangle(<<1, 1>>, MaxLeg, 3)
    /\ Cardinality(Coloured) = (MaxLeg * (MaxLeg + 1)) \div 2
    /\ img.Pix[MaxLeg * DrawW + MaxLeg + 1] = DrawOp.c
    /\ img.Pix[DrawW + 1] = prev.Pix[DrawW + 1]

-----------------------------------------------------------------------------
(* Properties of the bullet numbers (checked under SpecText) *)

BulletCall ==
    /\ ops # <<>> /\ TextOp.name = "buildBulletRun"
    /\ ~TextOp.b.isNil /\ TextOp.b.Type # "None"

\* The paragraph's first text run that carries a font.
FirstRun == firstRunFont(TextOp.para.elements, 1)

\* C24: the bullet run takes its font colour and its font name from the
\* bullet when the bullet sets them and otherwise from the paragraph's first
\* text run; its size is 10 pt when no text run provides one.
C24_BulletFontInherited ==
    BulletCall =>
        /\ TextOp.run.font.f.Color =
              IF ~TextOp.b.Color.isNil THEN TextOp.b.Color.c
              ELSE IF FirstRun.found THEN FirstRun.font.Color
              ELSE TextOp.run.font.f.Color
        /\ TextOp.run.font.f.Name =
              IF TextOp.b.Font # "" THEN TextOp.b.Font
              ELSE IF FirstRun.found THEN FirstRun.font.Name
              ELSE TextOp.run.font.f.Name
        /\ ~FirstRun.found => TextOp.run.font.f.Size = 10

RomanCall == ops # <<>> /\ TextOp.name = "toRoman"

RomanValue(ch) ==
    CASE ch = "I" -> 1 [] ch = "V" -> 5 [] ch = "X" -> 10 [] ch = "L" -> 50
      [] ch = "C" -> 100 [] ch = "D" -> 500 [] ch = "M" -> 1000 [] OTHER -> 0

\* The standard decoder: a symbol smaller than its successor is subtracted,
\* every other symbol is added.
RECURSIVE RomanDecode(_, _)
RomanDecode(str, i) ==
    IF i > Len(str) THEN 0
    ELSE IF i < Len(str) /\ RomanValue(str[i]) < RomanValue(str[i + 1])
    THEN RomanDecode(str, i + 1) - RomanValue(str[i])
    ELSE RomanDecode(str, i + 1) + RomanValue(str[i])

DigitValue(ch) == (CHOOSE d \in 1 .. 10 : DigitChars[d] = ch) - 1

IsDigit(ch) == \E d \in 1 .. 10 : DigitChars[d] = ch

\* The number a string of decimal digits writes, most significant first.
RECURSIVE ParseDigits(_, _)
ParseDigits(str, k) ==
    IF k = 0 THEN 0 ELSE 10 * ParseDigits(str, k - 1) + DigitValue(str[k])

\* The string is the decimal writing of n: a minus sign for n < 0, then the
\* digits without a leading zero.
IsDecimalOf(str, n) ==
    LET digits == IF n < 0 THEN Tail(str) ELSE str
    IN  /\ str # <<>> /\ (n < 0 <=> str[1] = "-")
        /\ digits # <<>> /\ \A k \in 1 .. Len(digits) : IsDigit(digits[k])
        /\ (Len(digits) > 1 => digits[1] # "0")
        /\ ParseDigits(digits, Len(digits)) = (IF n < 0 THEN -n ELSE n)

\* C18: for every n in 1..3999 toRoman(n) is a string of Roman symbols that
\* the standard decoder maps back to n, so distinct n have distinct
\* numerals (compared directly with the numerals of the numbers next to n);
\* for n <= 0 or n > 3999 it is the decimal digits of n.
C18_RomanRoundTrip ==
    RomanCall =>
        IF TextOp.num >= 1 /\ TextOp.num <= 3999
        THEN /\ TextOp.out # <<>>
             /\ \A k \in 1 .. Len(TextOp.out) : RomanValue(TextOp.out[k]) > 0
             /\ RomanDecode(TextOp.out, 1) = TextOp.num
             /\ \A m \in (TextOp.num - NumSlack) .. (TextOp.num + NumSlack) :
                   toRoman(m) = TextOp.out => m = TextOp.num
        ELSE IsDecimalOf(TextOp.out, TextOp.num)

\* 1994 written with three subtractive pairs.
C18_Witness ==
    /\ RomanCall /\ TextOp.num = 1994
    /\ TextOp.out = <<"M", "C", "M", "X", "C", "I", "V">>
    /\ RomanDecode(TextOp.out, 1) = 1994

-----------------------------------------------------------------------------
(* Scenario S4 (checked under SpecDraw) *)

\* The gradient from opaque red to opaque blue at 0 degrees over the whole
\* strip of 100 x 10 pixels.
S4Call ==
    /\ ops # <<>> /\ DrawOp.name = "fillGradientLinear"
    /\ img.W = 100 /\ img.H = 10
    /\ DrawOp.rect = Rect(0, 0, 100, 10)
    /\ DrawOp.fill = LinearFill(Red, Blue, 0)

StripPixel(x, y) == img.Pix[y * 100 + x]

Near(a, b) == a - b <= 1 /\ b - a <= 1

NearColor(p, r, g, b, a) == Near(p.R, r) /\ Near(p.G, g) /\ Near(p.B, b) /\ Near(p.A, a)

\* C20 (as stated): in scenario S4 pixel (0,5) is (255,0,0,255), pixel
\* (99,5) is (0,0,255,255) and pixel (50,5) is (127,0,128,255), each within
\* one per channel.
C20_S4Pixels ==
    S4Call => /\ NearColor(StripPixel(0, 5), 255, 0, 0, 255)
              /\ NearColor(StripPixel(99, 5), 0, 0, 255, 255)
              /\ NearColor(StripPixel(50, 5), 127, 0, 128, 255)

\* C20 (amended): in scenario S4 pixel (0,5) is (255,0,0,255), pixel (50,5)
\* is (127,0,128,255) and the last pixel (99,5), where t = 99/100 and not 1,
\* is (2,0,252,255), each within one per channel.
C20_S4PixelsLastColumn ==
    S4Call => /\ NearColor(StripPixel(0, 5), 255, 0, 0, 255)
              /\ NearColor(StripPixel(99, 5), 2, 0, 252, 255)
              /\ NearColor(StripPixel(50, 5), 127, 0, 128, 255)

C20_Witness ==
    /\ S4Call /\ ~DrawOp.low
    /\ StripPixel(0, 5) = RGBA(255, 0, 0, 255)
    /\ StripPixel(50, 5) = RGBA(127, 0, 127, 255)
    /\ StripPixel(99, 5) = RGBA(2, 0, 252, 255)

-----------------------------------------------------------------------------
(* Properties of image scaling (checked under SpecDraw) *)

SameSizeScale ==
    /\ ops # <<>> /\ DrawOp.name = "scaleImageBilinear"
    /\ DrawOp.dstW = DrawOp.src.W /\ DrawOp.dstH = DrawOp.src.H

\* The source pixel as an 8-bit RGBA colour: the stored bytes of an
\* *image.RGBA; for a straight-alpha picture the colour premultiplied by
\* its alpha, alpha unchanged, colour bytes of an opaque pixel unchanged.
SourceRGBA(src, i) ==
    IF src.kind = "RGBA" \/ src.Pix[i].A = 255 THEN src.Pix[i]
    ELSE RGBA((src.Pix[i].R * src.Pix[i].A * 257) \div (255 * 256),
              (src.Pix[i].G * src.Pix[i].A * 257) \div (255 * 256),
              (src.Pix[i].B * src.Pix[i].A * 257) \div (255 * 256),
              src.Pix[i].A)

-----------------------------------------------------------------------------
(* Properties of the shape list (checked under SpecSlide) *)

\* s.GetShapes()
GetShapes == pres.slides[1].shapes

RemoveCall == ops # <<>> /\ LastOp.name = "RemoveShape"

\* The shapes that were created and not removed since: the ptr of the shape
\* an in-range RemoveShape found at its index is gone.
Removed ==
    {ops[k].before[ops[k].index + 1].ptr :
        k \in {j \in 1 .. Len(ops) : ops[j].name = "RemoveShape" /\ ~ops[j].err}}

\* C22: RemoveShape(index) with index < 0 or index >= the shape count
\* returns an error and leaves the list unchanged; with an index in range
\* it returns nil and removes exactly the shape at that index, the others
\* keeping their order; so after any sequence of Create*/AddShape and
\* RemoveShape calls GetShapes lists the surviving shapes in the order of
\* their insertion.
C22_RemoveShapeByIndex ==
    /\ RemoveCall =>
          IF LastOp.index < 0 \/ LastOp.index >= Len(LastOp.before)
          THEN LastOp.err /\ GetShapes = LastOp.before
          ELSE /\ ~LastOp.err
               /\ Len(GetShapes) = Len(LastOp.before) - 1
               /\ \A k \in 1 .. Len(GetShapes) :
                     GetShapes[k] = IF k <= LastOp.index THEN LastOp.before[k]
                                    ELSE LastOp.before[k + 1]
    /\ \A k \in 1 .. Len(GetShapes) - 1 : GetShapes[k].ptr < GetShapes[k + 1].ptr
    /\ {GetShapes[k].ptr : k \in 1 .. Len(GetShapes)} = (1 .. Created) \ Removed

\* Three shapes of which the middle one is removed.
C22_Witness ==
    /\ Len(ops) = 4 /\ RemoveCall /\ LastOp.index = 1 /\ ~LastOp.err
    /\ Len(LastOp.before) = 3
    /\ Len(GetShapes) = 2 /\ GetShapes[1].ptr = 1 /\ GetShapes[2].ptr = 3

-----------------------------------------------------------------------------
(* Properties of rotated compositing (checked under SpecDraw) *)

\* A call with a rotation and w + h odd: the source coordinates of every
\* destination pixel are then odd multiples of one half, which float64
\* holds without error.
TurnedCall ==
    /\ ops # <<>> /\ DrawOp.name = "renderRotated"
    /\ DrawOp.rotation # 0 /\ DrawOp.w > 0 /\ DrawOp.h > 0
    /\ (DrawOp.w + DrawOp.h) % 2 = 1

\* Twice the source coordinates (sx, sy) of the destination pixel (px, py).
SourceX2(px, py) ==
    (2 * px - 2 * DrawOp.x - DrawOp.w) * Cos4(DrawOp.rotation)
    + (2 * py - 2 * DrawOp.y - DrawOp.h) * Sin4(DrawOp.rotation) + DrawOp.w

SourceY2(px, py) ==
    (2 * py - 2 * DrawOp.y - DrawOp.h) * Cos4(DrawOp.rotation)
    - (2 * px - 2 * DrawOp.x - DrawOp.w) * Sin4(DrawOp.rotation) + DrawOp.h

\* C23: in rotated compositing a destination pixel is blended only if the
\* floor of its source coordinate (sx, sy) lies in [0,w) x [0,h), that is
\* 0 <= sx < w and 0 <= sy < h; a destination pixel with a negative source
\* coordinate is never written.
C23_OnlyFlooredSourceInRange ==
    TurnedCall =>
        \A i \in DOMAIN img.Pix :
            img.Pix[i] # prev.Pix[i]
            => /\ SourceX2(PixX(img, i), PixY(img, i)) >= 0
               /\ SourceX2(PixX(img, i), PixY(img, i)) < 2 * DrawOp.w
               /\ SourceY2(PixX(img, i), PixY(img, i)) >= 0
               /\ SourceY2(PixX(img, i), PixY(img, i)) < 2 * DrawOp.h

-----------------------------------------------------------------------------
(* Properties of the buffer accesses (checked under SpecDraw) *)

\* The call draws on the small canvas with a box that is empty, across an
\* edge of the canvas or wholly outside it.
OffCanvasCall ==
    /\ ops # <<>>
    /\ IsDrawCanvas(img0)
    /\ \/ /\ DrawOp.name \in {"renderRotated", "fillEllipseAA"}
          /\ \/ DrawOp.w <= 0 \/ DrawOp.h <= 0
             \/ DrawOp.x < 0 \/ DrawOp.y < 0
             \/ DrawOp.x + DrawOp.w > DrawW \/ DrawOp.y + DrawOp.h > DrawH
       \/ /\ DrawOp.name \in {"fillGradientLinear", "fillGradientPath"}
          /\ \/ RectDx(DrawOp.rect) <= 0 \/ RectDy(DrawOp.rect) <= 0
             \/ DrawOp.rect.MinX < 0 \/ DrawOp.rect.MinY < 0
             \/ DrawOp.rect.MaxX > DrawW \/ DrawOp.rect.MaxY > DrawH

\* C25: every element of the pixel buffer that fillEllipseAA, the linear and
\* the radial gradient fill index directly lies in [0, stride*height) of the
\* canvas, and every element that the flip copy and the rotated sampling of
\* renderRotated index lies inside the w x h offscreen, also for boxes
\* partly or wholly outside the canvas and for empty boxes; a gradient
\* changes no pixel that it has not indexed.
C25_BufferAccessInRange ==
    ops # <<>> =>
        /\ DrawOp.name \in {"fillEllipseAA", "fillGradientLinear", "fillGradientPath"} =>
              DrawOp.acc \subseteq 0 .. (img0.W * img0.H - 1)
        /\ DrawOp.name = "renderRotated" =>
              DrawOp.tmpAcc \subseteq 0 .. (DrawOp.w * DrawOp.h - 1)
        /\ DrawOp.name \in {"fillGradientLinear", "fillGradientPath"} =>
              \A i \in DOMAIN img.Pix : i \notin DrawOp.acc => img.Pix[i] = img0.Pix[i]

\* An ellipse across the top left corner, a gradient across the right edge
\* and a turned and flipped box across the bottom right corner have indexed
\* the buffer.
C25_Witness ==
    /\ OffCanvasCall
    /\ \/ DrawOp.name = "fillEllipseAA" /\ DrawOp.x < 0 /\ DrawOp.acc # {}
          /\ img # img0
       \/ DrawOp.name = "fillGradientPath" /\ DrawOp.rect.MaxX > DrawW
          /\ DrawOp.acc # {}
       \/ DrawOp.name = "renderRotated" /\ DrawOp.rotation = 90 /\ DrawOp.flipH
          /\ DrawOp.x + DrawOp.w > DrawW /\ DrawOp.tmpAcc # {} /\ img # img0

-----------------------------------------------------------------------------
(* Properties of the paragraph layout (checked under SpecText) *)

ParagraphsCall ==
    ops # <<>> /\ TextOp.name = "drawParagraphs" /\ TextOp.out.drawn

Placed == TextOp.out.placed

\* The curY the drawing loop ends with.
LayoutEnd == Placed[Len(Placed)].curY

\* C26: the top of the text block is y for the top anchor, y + (h - total)/2
\* (integer division) for middle and y + h - total for bottom, where total is
\* the distance the layout advances over all lines; with the bottom anchor
\* the bottom of the last line with its space after is the bottom of the box,
\* and a block taller than the box starts above it with every line placed
\* one after the other.
C26_AnchorPlacesBlock ==
    ParagraphsCall =>
        /\ Placed[1].curY = TextOp.out.startY
        /\ LayoutEnd - TextOp.out.startY = TextOp.out.totalH
        /\ TextOp.anchor = "top" => TextOp.out.startY = TextOp.y
        /\ TextOp.anchor = "middle" =>
              TextOp.out.startY = TextOp.y + TruncDiv(TextOp.h - TextOp.out.totalH, 2)
        /\ TextOp.anchor = "bottom" =>
              /\ TextOp.out.startY = TextOp.y + TextOp.h - TextOp.out.totalH
              /\ LayoutEnd = TextOp.y + TextOp.h
              /\ TextOp.out.totalH > TextOp.h => TextOp.out.startY < TextOp.y
        /\ \A k \in 1 .. (Len(Placed) - 2) :
              Placed[k + 1].curY >= Placed[k].curY + Placed[k].lh + Placed[k].spaceAfter

\* Two paragraphs with gaps and a scaled line, anchored at the bottom of a
\* box that is shorter than the block.
C26_Witness ==
    /\ ParagraphsCall
    /\ TextOp.anchor = "bottom"
    /\ Len(TextOp.paragraphs) = 2
    /\ TextOp.paragraphs[1].spaceBefore > 0
    /\ TextOp.paragraphs[2].lineSpacing > 0
    /\ Len(Placed) > 3
    /\ TextOp.out.totalH > TextOp.h /\ TextOp.h > 0
    /\ TextOp.out.startY < TextOp.y
    /\ LayoutEnd = TextOp.y + TextOp.h

-----------------------------------------------------------------------------
(* Properties of drawLine (checked under SpecDraw) *)

LineCall == ops # <<>> /\ DrawOp.name = "drawLine"

LinePoints == DrawOp.line.pts

\* C30: drawLine ends for every pair of integer end points; it blends the
\* start and the end pixel and max(|x2-x1|, |y2-y1|) + 1 pixels in all, each
\* at most 1 in x and 1 in y from the one before and different from it, and
\* the canvas holds one blend of the colour at every such pixel inside it.
C30_BresenhamLine ==
    LineCall =>
        /\ DrawOp.line.done
        /\ LinePoints[1] = <<DrawOp.x1, DrawOp.y1>>
        /\ LinePoints[Len(LinePoints)] = <<DrawOp.x2, DrawOp.y2>>
        /\ Len(LinePoints) = Max2(abs(DrawOp.x2 - DrawOp.x1), abs(DrawOp.y2 - DrawOp.y1)) + 1
        /\ \A k \in 1 .. (Len(LinePoints) - 1) :
              /\ abs(LinePoints[k + 1][1] - LinePoints[k][1]) <= 1
              /\ abs(LinePoints[k + 1][2] - LinePoints[k][2]) <= 1
              /\ LinePoints[k + 1] # LinePoints[k]
        /\ \A i \in DOMAIN img.Pix :
              img.Pix[i] = IF \E k \in 1 .. Len(LinePoints) :
                                  LinePoints[k] = <<PixX(img, i), PixY(img, i)>>
                           THEN BlendPixelValue(DrawOp.c, img0.Pix[i])
                           ELSE img0.Pix[i]

\* A slanted line of more than two pixels that starts outside the canvas
\* and has coloured its end pixel.
C30_Witness ==
    /\ LineCall
    /\ DrawOp.x1 < 0
    /\ abs(DrawOp.x2 - DrawOp.x1) > abs(DrawOp.y2 - DrawOp.y1)
    /\ abs(DrawOp.y2 - DrawOp.y1) > 1
    /\ DrawOp.line.done
    /\ Len(LinePoints) > 3
    /\ DrawOp.c.A = 255
    /\ img.Pix[DrawOp.y2 * DrawW + DrawOp.x2] = DrawOp.c
    /\ img.Pix[DrawOp.y2 * DrawW + DrawOp.x2] # img0.Pix[DrawOp.y2 * DrawW + DrawOp.x2]

-----------------------------------------------------------------------------
(* Properties of the charts (checked under SpecChart) *)

ChartOp == ops[1]

BarCall == ops # <<>> /\ ChartOp.name = "renderBarChart" /\ ChartOp.series # <<>>

\* The plot area of the call, as a rectangle.
PlotRect ==
    Rect(ChartOp.px, ChartOp.py, ChartOp.px + ChartOp.pw, ChartOp.py + ChartOp.ph)

\* C27: the value range of a bar chart has min <= 0 and max > min, and every
\* bar that is drawn (its rectangle is not empty) has a height in [0, plot_h]
\* and lies inside the plot area, also when the category lists of the series
\* differ and when every value is negative.
C27_BarsInsidePlot ==
    BarCall =>
        /\ ChartOp.range.minVal <= 0
        /\ ChartOp.range.maxVal > ChartOp.range.minVal
        /\ \A k \in 1 .. Len(ChartOp.bars) :
              ~RectEmpty(ChartOp.bars[k].rect) =>
                  /\ 0 <= ChartOp.bars[k].barH
                  /\ ChartOp.bars[k].barH <= ChartOp.ph
                  /\ Intersect(ChartOp.bars[k].rect, PlotRect) = ChartOp.bars[k].rect

PieCall ==
    /\ ops # <<>> /\ ChartOp.name = "renderPieChart"
    /\ ChartOp.series # <<>> /\ ChartOp.series[1].Categories # <<>>
    /\ pieTotal(ChartOp.series[1], 1) > 0
    /\ TruncDiv(Min2(ChartOp.pw, ChartOp.ph), 2) >= 5

PieSeries == ChartOp.series[1]
PieRadius == TruncDiv(Min2(ChartOp.pw, ChartOp.ph), 2)
PieCX == ChartOp.px + TruncDiv(ChartOp.pw, 2)
PieCY == ChartOp.py + TruncDiv(ChartOp.ph, 2)

\* The start of slice j in quarter turns, clockwise from the top: four
\* times the share of the positive values before it.
RECURSIVE PositiveBefore(_, _)
PositiveBefore(s, j) ==
    IF j <= 1 THEN 0
    ELSE PositiveBefore(s, j - 1)
         + (IF seriesValue(s, s.Categories[j - 1]) > 0
            THEN seriesValue(s, s.Categories[j - 1]) ELSE 0)

SliceStart(s, j) == (4 * PositiveBefore(s, j)) \div pieTotal(s, 1)
SliceEnd(s, j) == (4 * PositiveBefore(s, j + 1)) \div pieTotal(s, 1)

\* The direction of (dx, dy) lies in the angular interval of slice j: place
\* counts eighths of a turn from the top, the top itself being both the
\* angle 0 and the end of a whole turn.
InSlice(s, j, dx, dy) ==
    LET place == (atan2Place(dy, dx) + 2) % 8
    IN  \/ dx = 0 /\ dy = 0
        \/ 2 * SliceStart(s, j) <= place /\ place <= 2 * SliceEnd(s, j)
        \/ place = 0 /\ SliceEnd(s, j) = 4

\* C28: in a pie chart with total > 0 every pixel within the radius of the
\* centre has the colour of a slice whose angular interval holds the angle of
\* the pixel; a single positive category fills the whole disc.
C28_SlicesCoverDisc ==
    PieCall =>
        \A i \in DOMAIN img.Pix :
            LET dx == PixX(img, i) - PieCX
                dy == PixY(img, i) - PieCY
            IN  dx * dx + dy * dy <= PieRadius * PieRadius =>
                    \E j \in 1 .. Len(PieSeries.Categories) :
                        /\ seriesValue(PieSeries, PieSeries.Categories[j]) > 0
                        /\ InSlice(PieSeries, j, dx, dy)
                        /\ img.Pix[i] = defaultChartPalette[j]

-----------------------------------------------------------------------------
(* Properties of fillPlus, drawRect, fillRoundedRect and renderShadow *)

ShapeCall ==
    /\ ops # <<>>
    /\ DrawOp.name \in {"fillPlus", "drawRect", "fillRoundedRect", "renderShadow"}

\* The colours one call of the shape blends with: its colour, or for a
\* shadow the colours of its rings (of the one rectangle when it is sharp).
ShapeBlendColors ==
    IF DrawOp.name = "renderShadow"
    THEN LET sc == [argbToRGBA(DrawOp.shadow.Color) EXCEPT
                       !.A = uint8(TruncDiv(DrawOp.shadow.Alpha * 255, 100))]
             steps == Min2(DrawOp.shadow.BlurRadius, 10)
         IN  IF steps <= 0 THEN {sc}
             ELSE {shadowRingColor(sc, steps, i) : i \in 0 .. steps}
    ELSE {DrawOp.c}

\* Pixel i holds what it held before, or one blend of one of the colours.
BlendedAtMostOnce(i) ==
    \/ img.Pix[i] = prev.Pix[i]
    \/ \E c \in ShapeBlendColors : img.Pix[i] = BlendPixelValue(c, prev.Pix[i])

\* C29: a plus, a rectangle border, a rounded rectangle or a shadow drawn
\* with a translucent colour leaves every pixel either as it was or blended
\* once with the colour: no pixel is blended twice.
C29_EachPixelBlendedOnce ==
    (ShapeCall /\ \A c \in ShapeBlendColors : c.A < 255) =>
        \A i \in DOMAIN img.Pix : BlendedAtMostOnce(i)


=============================================================================
